---------------------------- MODULE Spec2Model ----------------------------
(***************************************************************************)
(* A model of the rural-health chatbot's serverless request handler and    *)
(* its multi-provider query router (src/api/chat.js and the simplified     *)
(* handler src/unnamed/part_001), with the classifier of                   *)
(* src/unnamed/part_000.                                                   *)
(*                                                                         *)
(* JavaScript strings that the code searches (includes, trim, toLowerCase) *)
(* are sequences of UTF-16 code units: an ASCII unit is written as itself, *)
(* a Devanagari unit as "uXXXX".  Texts the code only passes along (canned *)
(* answers, provider texts, header values) are TLA+ strings.  Confidence   *)
(* values are written in hundredths (0.85 is 85).                          *)
(***************************************************************************)
EXTENDS Integers, Sequences, FiniteSets, TLC

VARIABLES
    variant,        \* which handler module is deployed: "chat" or "simple"
    env,            \* process.env: the three provider credentials
    supabase,       \* TRUE iff the database client was created (non-null)
    dbInitialized,  \* module-level flag of src/api/chat.js
    pc,             \* per invocation: the handler's position
    req,            \* per invocation: the request (method, body)
    res,            \* per invocation: the response object being built
    local,          \* per invocation: the handler's and the router's locals
    calls,          \* per invocation: the provider calls issued, in order
    inserts,        \* per invocation: the rows submitted to chat_history, in order
    proc,           \* the one call of processHealthQuery (src/unnamed/part_000)
    client          \* the browser page of src/script.js: chat history, timers, calls

vars == <<variant, env, supabase, dbInitialized, pc, req, res, local, calls, inserts,
         proc, client>>

(***************************************************************************)
(* Bounds.                                                                 *)
(***************************************************************************)
NumReqs == 2

Reqs == 1..NumReqs

(***************************************************************************)
(* JavaScript values.                                                      *)
(***************************************************************************)
Undefined == "<undefined>"
Null      == "<null>"

\* !v for the values a text-valued variable can hold
Falsy(v) == v \in {Undefined, Null, ""}

\* a || b
Or(a, b) == IF Falsy(a) THEN b ELSE a

UpperChars == <<"A", "B", "C", "D", "E", "F", "G", "H", "I", "J", "K", "L", "M",
                "N", "O", "P", "Q", "R", "S", "T", "U", "V", "W", "X", "Y", "Z">>
LowerChars == <<"a", "b", "c", "d", "e", "f", "g", "h", "i", "j", "k", "l", "m",
                "n", "o", "p", "q", "r", "s", "t", "u", "v", "w", "x", "y", "z">>

\* the lower-case mapping of one code unit: the Latin capitals, and U+0130
\* (capital I with dot above), which maps to the two units i, U+0307
lowerOf(c) ==
    IF c = "u0130" THEN <<"i", "u0307">>
    ELSE IF \E j \in 1..Len(UpperChars) : UpperChars[j] = c
    THEN <<LowerChars[CHOOSE j \in 1..Len(UpperChars) : UpperChars[j] = c]>>
    ELSE <<c>>

\* String.prototype.toLowerCase
RECURSIVE toLowerCase(_)
toLowerCase(s) ==
    IF s = <<>> THEN <<>> ELSE lowerOf(Head(s)) \o toLowerCase(Tail(s))

\* String.prototype.includes
includes(s, k) ==
    \E i \in 0..(Len(s) - Len(k)) : SubSeq(s, i + 1, i + Len(k)) = k

WhiteSpace == {" ", "\t", "\n"}

RECURSIVE trimStart(_)
trimStart(s) ==
    IF s # <<>> /\ Head(s) \in WhiteSpace THEN trimStart(Tail(s)) ELSE s

RECURSIVE trimEnd(_)
trimEnd(s) ==
    IF s # <<>> /\ s[Len(s)] \in WhiteSpace
    THEN trimEnd(SubSeq(s, 1, Len(s) - 1))
    ELSE s

\* String.prototype.trim
trim(s) == trimEnd(trimStart(s))

\* Array.prototype.some(keyword => text.includes(keyword))
some(words, text) == \E i \in 1..Len(words) : includes(text, words[i])

(***************************************************************************)
(* Input texts.                                                            *)
(***************************************************************************)
EmptyText == <<>>
BlankText == <<" ", " ">>
FeverText == <<"f", "e", "v", "e", "r">>
MoviesText == <<"T", "e", "l", "l", " ", "m", "e", " ", "a", "b", "o", "u", "t", " ", "m", "o", "v", "i", "e", "s">>
BukharText == <<"u092e", "u0941", "u091d", "u0947", " ", "u092c", "u0941", "u0916", "u093e", "u0930", " ", "u0939", "u0948">>
HiText == <<"h", "i">>
HeartText == <<"M", "y", " ", "H", "E", "A", "R", "T", " ", "h", "u", "r", "t", "s">>
FeverMovieText == <<"f", "e", "v", "e", "r", " ", "m", "o", "v", "i", "e">>
HelloCricketText == <<"h", "e", "l", "l", "o", ",", " ", "a", "n", "y", " ", "c", "r", "i", "c", "k", "e", "t", " ", "n", "e", "w", "s", "?">>
NamasteText == <<"u0928", "u092e", "u0938", "u094d", "u0924", "u0947">>
UpperHeadacheText == <<"I", " ", "h", "a", "v", "e", " ", "a", " ", "H", "E", "A", "D", "A", "C", "H", "E">>
TenText == <<"1", "2", "3", "4", "5", "6", "7", "8", "9", "0">>
ElevenText == <<"1", "2", "3", "4", "5", "6", "7", "8", "9", "0", "1">>
OkText == <<"o", "k">>
NothingText == <<"t", "h", "i", "s", " ", "i", "s", " ", "n", "o", "t", "h", "i", "n", "g">>
NameText == <<"w", "h", "a", "t", " ", "i", "s", " ", "y", "o", "u", "r", " ", "n", "a", "m", "e">>
DastText == <<"u092e", "u0941", "u091d", "u0947", " ", "u0926", "u0938", "u094d", "u0924", " ", "u0939", "u0948">>
KhansiBukharText == <<"u0916", "u093e", "u0902", "u0938", "u0940", " ", "u0914", "u0930", " ", "u092c", "u0941", "u0916", "u093e", "u0930">>
DottedIText == <<"u0130", "u0130", "u0130", "u0130", "u0130", "u0130">>
BukharOnlyText == <<"u092c", "u0941", "u0916", "u093e", "u0930">>
FilmBukharText == <<"u092b", "u093f", "u0932", "u094d", "u092e", " ", "u0914", "u0930", " ", "u092c", "u0941", "u0916", "u093e", "u0930">>

(***************************************************************************)
(* The classifier (src/unnamed/part_000).                                  *)
(***************************************************************************)
healthKeywords ==
    << <<"u0938", "u094d", "u0935", "u093e", "u0938", "u094d", "u0925", "u094d", "u092f">>,
       <<"u092c", "u0940", "u092e", "u093e", "u0930", "u0940">>,
       <<"u0926", "u0935", "u093e">>,
       <<"u0921", "u0949", "u0915", "u094d", "u091f", "u0930">>,
       <<"u0907", "u0932", "u093e", "u091c">>,
       <<"u092c", "u0941", "u0916", "u093e", "u0930">>,
       <<"u0926", "u0930", "u094d", "u0926">>,
       <<"u0938", "u093f", "u0930", "u0926", "u0930", "u094d", "u0926">>,
       <<"u092a", "u0947", "u091f">>,
       <<"u0916", "u093e", "u0902", "u0938", "u0940">>,
       <<"u091c", "u0941", "u0915", "u093e", "u092e">>,
       <<"u092e", "u0927", "u0941", "u092e", "u0947", "u0939">>,
       <<"u0930", "u0915", "u094d", "u0924", "u091a", "u093e", "u092a">>,
       <<"u0939", "u0943", "u0926", "u092f">>,
       <<"u0926", "u093f", "u0932">>,
       <<"u0938", "u093e", "u0902", "u0938">>,
       <<"u0917", "u0930", "u094d", "u092d", "u093e", "u0935", "u0938", "u094d", "u0925", "u093e">>,
       <<"u092c", "u091a", "u094d", "u091a", "u0947">>,
       <<"u091f", "u0940", "u0915", "u093e">>,
       <<"u0935", "u0948", "u0915", "u094d", "u0938", "u0940", "u0928">>,
       <<"u092a", "u094b", "u0937", "u0923">>,
       <<"u092d", "u094b", "u091c", "u0928">>,
       <<"u0935", "u093f", "u091f", "u093e", "u092e", "u093f", "u0928">>,
       <<"u0915", "u0948", "u0932", "u094d", "u0936", "u093f", "u092f", "u092e">>,
       <<"u0906", "u092f", "u0930", "u0928">>,
       <<"h", "e", "a", "l", "t", "h">>,
       <<"d", "i", "s", "e", "a", "s", "e">>,
       <<"m", "e", "d", "i", "c", "i", "n", "e">>,
       <<"d", "o", "c", "t", "o", "r">>,
       <<"t", "r", "e", "a", "t", "m", "e", "n", "t">>,
       <<"f", "e", "v", "e", "r">>,
       <<"p", "a", "i", "n">>,
       <<"h", "e", "a", "d", "a", "c", "h", "e">>,
       <<"s", "t", "o", "m", "a", "c", "h">>,
       <<"c", "o", "u", "g", "h">>,
       <<"c", "o", "l", "d">>,
       <<"d", "i", "a", "b", "e", "t", "e", "s">>,
       <<"p", "r", "e", "s", "s", "u", "r", "e">>,
       <<"h", "e", "a", "r", "t">>,
       <<"b", "r", "e", "a", "t", "h", "i", "n", "g">>,
       <<"p", "r", "e", "g", "n", "a", "n", "c", "y">>,
       <<"c", "h", "i", "l", "d">>,
       <<"v", "a", "c", "c", "i", "n", "e">>,
       <<"n", "u", "t", "r", "i", "t", "i", "o", "n">>,
       <<"f", "o", "o", "d">>,
       <<"v", "i", "t", "a", "m", "i", "n">>,
       <<"c", "a", "l", "c", "i", "u", "m">>,
       <<"i", "r", "o", "n">>,
       <<"u0936", "u093f", "u0915", "u094d", "u0937", "u093e">>,
       <<"u092a", "u0922", "u093c", "u093e", "u0908">>,
       <<"u0938", "u094d", "u0915", "u0942", "u0932">>,
       <<"u0915", "u0949", "u0932", "u0947", "u091c">>,
       <<"u0935", "u093f", "u0936", "u094d", "u0935", "u0935", "u093f", "u0926", "u094d", "u092f", "u093e", "u0932", "u092f">>,
       <<"u092a", "u0930", "u0940", "u0915", "u094d", "u0937", "u093e">>,
       <<"u0915", "u093f", "u0924", "u093e", "u092c">>,
       <<"e", "d", "u", "c", "a", "t", "i", "o", "n">>,
       <<"s", "t", "u", "d", "y">>,
       <<"s", "c", "h", "o", "o", "l">>,
       <<"c", "o", "l", "l", "e", "g", "e">>,
       <<"u", "n", "i", "v", "e", "r", "s", "i", "t", "y">>,
       <<"e", "x", "a", "m">>,
       <<"b", "o", "o", "k">> >>

nonHealthKeywords ==
    << <<"m", "o", "v", "i", "e">>,
       <<"f", "i", "l", "m">>,
       <<"u0938", "u093f", "u0928", "u0947", "u092e", "u093e">>,
       <<"u092b", "u093f", "u0932", "u094d", "u092e">>,
       <<"u0917", "u093e", "u0928", "u093e">>,
       <<"s", "o", "n", "g">>,
       <<"m", "u", "s", "i", "c">>,
       <<"u0938", "u0902", "u0917", "u0940", "u0924">>,
       <<"c", "r", "i", "c", "k", "e", "t">>,
       <<"f", "o", "o", "t", "b", "a", "l", "l">>,
       <<"s", "p", "o", "r", "t", "s">>,
       <<"u0916", "u0947", "u0932">>,
       <<"p", "o", "l", "i", "t", "i", "c", "s">>,
       <<"u0930", "u093e", "u091c", "u0928", "u0940", "u0924", "u093f">>,
       <<"e", "l", "e", "c", "t", "i", "o", "n">>,
       <<"w", "e", "a", "t", "h", "e", "r">>,
       <<"u092e", "u094c", "u0938", "u092e">>,
       <<"j", "o", "k", "e">>,
       <<"c", "o", "m", "e", "d", "y">>,
       <<"u092e", "u091c", "u093e", "u0915">>,
       <<"e", "n", "t", "e", "r", "t", "a", "i", "n", "m", "e", "n", "t">>,
       <<"u092e", "u0928", "u094b", "u0930", "u0902", "u091c", "u0928">> >>

greetings ==
    << <<"h", "e", "l", "l", "o">>,
       <<"h", "i">>,
       <<"u0928", "u092e", "u0938", "u094d", "u0924", "u0947">>,
       <<"u0939", "u0948", "u0932", "u094b">>,
       <<"u0915", "u0948", "u0938", "u0947", " ", "u0939", "u0948", "u0902">>,
       <<"h", "o", "w", " ", "a", "r", "e", " ", "y", "o", "u">> >>

OffTopicRedirect  == "redirect: only health and education questions"
NoKeywordRedirect == "redirect: please ask a health or education question"

\* mutant: the health keywords are tested before the off-topic ones
validateHealthQueryHealthFirst(query) ==
    LET queryLower == toLowerCase(query)
        hasNonHealthKeywords == some(nonHealthKeywords, queryLower)
        hasHealthKeywords == some(healthKeywords, queryLower)
        isGreeting == some(greetings, queryLower)
    IN  IF hasHealthKeywords
        THEN [isValid |-> TRUE, redirectMessage |-> Undefined]
        ELSE IF hasNonHealthKeywords
        THEN [isValid |-> FALSE, redirectMessage |-> OffTopicRedirect]
        ELSE IF isGreeting
        THEN [isValid |-> TRUE, redirectMessage |-> Undefined]
        ELSE IF Len(queryLower) > 10
        THEN [isValid |-> FALSE, redirectMessage |-> NoKeywordRedirect]
        ELSE [isValid |-> TRUE, redirectMessage |-> Undefined]

\* mutant: the keywords are searched in the query as typed, not lower-cased
validateHealthQueryCaseSensitive(query) ==
    LET hasNonHealthKeywords == some(nonHealthKeywords, query)
        hasHealthKeywords == some(healthKeywords, query)
        isGreeting == some(greetings, query)
    IN  IF hasNonHealthKeywords
        THEN [isValid |-> FALSE, redirectMessage |-> OffTopicRedirect]
        ELSE IF isGreeting
        THEN [isValid |-> TRUE, redirectMessage |-> Undefined]
        ELSE IF ~hasHealthKeywords /\ Len(query) > 10
        THEN [isValid |-> FALSE, redirectMessage |-> NoKeywordRedirect]
        ELSE [isValid |-> TRUE, redirectMessage |-> Undefined]

\* mutant: a query of exactly 10 code units is already too long
validateHealthQueryAtLeastTen(query) ==
    LET queryLower == toLowerCase(query)
        hasNonHealthKeywords == some(nonHealthKeywords, queryLower)
        hasHealthKeywords == some(healthKeywords, queryLower)
        isGreeting == some(greetings, queryLower)
    IN  IF hasNonHealthKeywords
        THEN [isValid |-> FALSE, redirectMessage |-> OffTopicRedirect]
        ELSE IF isGreeting
        THEN [isValid |-> TRUE, redirectMessage |-> Undefined]
        ELSE IF ~hasHealthKeywords /\ Len(queryLower) >= 10
        THEN [isValid |-> FALSE, redirectMessage |-> NoKeywordRedirect]
        ELSE [isValid |-> TRUE, redirectMessage |-> Undefined]

validateHealthQuery(query) ==
    LET queryLower == toLowerCase(query)
        hasNonHealthKeywords == some(nonHealthKeywords, queryLower)
        hasHealthKeywords == some(healthKeywords, queryLower)
        isGreeting == some(greetings, queryLower)
    IN  IF hasNonHealthKeywords
        THEN [isValid |-> FALSE, redirectMessage |-> OffTopicRedirect]
        ELSE IF isGreeting
        THEN [isValid |-> TRUE, redirectMessage |-> Undefined]
        ELSE IF ~hasHealthKeywords /\ Len(queryLower) > 10
        THEN [isValid |-> FALSE, redirectMessage |-> NoKeywordRedirect]
        ELSE [isValid |-> TRUE, redirectMessage |-> Undefined]

(***************************************************************************)
(* Object literals keyed by language.  obj[key] finds an own property, or  *)
(* else a member inherited from Object.prototype (a truthy value that is   *)
(* not one of the literal's entries), or else undefined.                   *)
(***************************************************************************)
OwnLanguages == {"hindi", "english", "hinglish"}

ObjectPrototypeKeys ==
    {"constructor", "toString", "valueOf", "hasOwnProperty", "isPrototypeOf",
     "propertyIsEnumerable", "toLocaleString", "__proto__"}

Inherited == "<inherited member>"

\* table[language] || table.hinglish, as the entry that is selected
selectByLanguage(language) ==
    IF language \in OwnLanguages THEN language
    ELSE IF language \in ObjectPrototypeKeys THEN Inherited
    ELSE "hinglish"

(***************************************************************************)
(* The fallback responders.                                                *)
(***************************************************************************)
(* src/api/chat.js:314-327: the keyword rules, in the order they are tested. *)
FallbackRules ==
    << [key |-> "fever", words |-> << <<"f", "e", "v", "e", "r">>,
                 <<"u092c", "u0941", "u0916", "u093e", "u0930">>,
                 <<"u0924", "u093e", "u092a", "u092e", "u093e", "u0928">> >>],
       [key |-> "headache", words |-> << <<"h", "e", "a", "d", "a", "c", "h", "e">>,
                 <<"u0938", "u093f", "u0930", "u0926", "u0930", "u094d", "u0926">>,
                 <<"u0938", "u093f", "u0930", " ", "u092e", "u0947", "u0902", " ", "u0926", "u0930", "u094d", "u0926">> >>],
       [key |-> "cough", words |-> << <<"c", "o", "u", "g", "h">>,
                 <<"u0916", "u093e", "u0902", "u0938", "u0940">>,
                 <<"u0916", "u093e", "u0901", "u0938", "u0940">> >>],
       [key |-> "stomach", words |-> << <<"s", "t", "o", "m", "a", "c", "h">>,
                 <<"u092a", "u0947", "u091f">>,
                 <<"p", "e", "t", " ", "d", "a", "r", "d">> >>],
       [key |-> "diabetes", words |-> << <<"d", "i", "a", "b", "e", "t", "e", "s">>,
                 <<"u092e", "u0927", "u0941", "u092e", "u0947", "u0939">>,
                 <<"s", "u", "g", "a", "r">>,
                 <<"u0936", "u0941", "u0917", "u0930">> >>],
       [key |-> "blood_pressure", words |-> << <<"b", "l", "o", "o", "d", " ", "p", "r", "e", "s", "s", "u", "r", "e">>,
                 <<"b", "p">>,
                 <<"u0930", "u0915", "u094d", "u0924", "u091a", "u093e", "u092a">>,
                 <<"u0939", "u093e", "u0908", " ", "u092c", "u0940", "u092a", "u0940">> >>],
       [key |-> "cold", words |-> << <<"c", "o", "l", "d">>,
                 <<"f", "l", "u">>,
                 <<"u0938", "u0930", "u094d", "u0926", "u0940">>,
                 <<"u091c", "u0941", "u0915", "u093e", "u092e">> >>] >>

(* src/unnamed/part_001:145-173: the condition table, in insertion order; each
   condition is matched by its name or by its first four characters (slice(0, 4)). *)
SimpleFallbackRules ==
    << [key |-> "diabetes", words |-> << <<"d", "i", "a", "b", "e", "t", "e", "s">>,
                 <<"d", "i", "a", "b">> >>],
       [key |-> "pressure", words |-> << <<"p", "r", "e", "s", "s", "u", "r", "e">>,
                 <<"p", "r", "e", "s">> >>],
       [key |-> "heart", words |-> << <<"h", "e", "a", "r", "t">>,
                 <<"h", "e", "a", "r">> >>] >>

\* the key of the first rule one of whose words the text includes, else dflt
RECURSIVE firstMatch(_, _, _, _)
firstMatch(rules, i, text, dflt) ==
    IF i > Len(rules) THEN dflt
    ELSE IF some(rules[i].words, text) THEN rules[i].key
    ELSE firstMatch(rules, i + 1, text, dflt)

\* src/api/chat.js: the canned answer healthResponses[lang][key]
ChatAnswer(lang, key) == "chat/" \o lang \o "/" \o key

\* src/unnamed/part_001: the canned answer healthResponses[key][lang]
SimpleAnswer(key, lang) == "simple/" \o key \o "/" \o lang

\* getEnhancedFallbackResponse of src/api/chat.js
getEnhancedFallbackResponseChat(message, language) ==
    LET msg == toLowerCase(message)
        langResponses == selectByLanguage(language)
        key == firstMatch(FallbackRules, 1, msg, "general")
    IN  IF langResponses = Inherited THEN Undefined
        ELSE ChatAnswer(langResponses, key)

\* getEnhancedFallbackResponse of src/unnamed/part_001
getEnhancedFallbackResponseSimple(message, language) ==
    LET query == toLowerCase(message)
        key == firstMatch(SimpleFallbackRules, 1, query, "general")
        lang == IF language = "english" THEN "english"
                ELSE IF language = "hindi" THEN "hindi"
                ELSE "hinglish"
    IN  SimpleAnswer(key, lang)

getEnhancedFallbackResponse(message, language) ==
    IF variant = "chat"
    THEN getEnhancedFallbackResponseChat(message, language)
    ELSE getEnhancedFallbackResponseSimple(message, language)

(***************************************************************************)
(* processHealthQuery and its helpers (src/unnamed/part_000).              *)
(***************************************************************************)
(* ruralHealthResponses: the conditions, in the order Object.entries yields  *)
(* them (bukhar, dast, khansi, madhumeh, garbhavastha, tika).               *)
RuralRules ==
    << [key |-> "bukhar", words |-> << <<"u092c", "u0941", "u0916", "u093e", "u0930">> >>],
       [key |-> "dast", words |-> << <<"u0926", "u0938", "u094d", "u0924">> >>],
       [key |-> "khansi", words |-> << <<"u0916", "u093e", "u0902", "u0938", "u0940">> >>],
       [key |-> "madhumeh", words |-> << <<"u092e", "u0927", "u0941", "u092e", "u0947", "u0939">> >>],
       [key |-> "garbhavastha", words |-> << <<"u0917", "u0930", "u094d", "u092d", "u093e", "u0935", "u0938", "u094d", "u0925", "u093e">> >>],
       [key |-> "tika", words |-> << <<"u091f", "u0940", "u0915", "u093e">> >>] >>

RuralAnswer(condition) == "rural/" \o condition

\* the suffix appended to a condition's answer
EmergencySuffix == " + in a serious case go to a doctor or health centre at once"

\* defaultMessages[language] || defaultMessages['hinglish']
RuralDefault(language) ==
    LET sel == selectByLanguage(language)
    IN  IF sel = Inherited THEN Inherited ELSE "rural/default/" \o sel

\* generateRuralFallbackResponse(query): both return statements evaluate the
\* identifier  language , which is neither a parameter of the function nor
\* declared anywhere in the module; evaluating it throws a ReferenceError
generateRuralFallbackResponse(query) ==
    LET queryLower == toLowerCase(query)
        condition == firstMatch(RuralRules, 1, queryLower, "default")
        language == [threw |-> TRUE, value |-> Undefined]
    IN  IF language.threw THEN [threw |-> TRUE, value |-> Undefined]
        ELSE IF condition # "default"
        THEN [threw |-> FALSE,
              value |-> [message |-> RuralAnswer(condition) \o EmergencySuffix,
                         confidence |-> 70, category |-> "health",
                         language |-> language.value]]
        ELSE [threw |-> FALSE,
              value |-> [message |-> RuralDefault(language.value),
                         confidence |-> 60, category |-> "health",
                         language |-> language.value]]

\* getLocalizedRedirectMessage(language = 'hinglish')
getLocalizedRedirectMessage(language) ==
    LET sel == selectByLanguage(IF language = Undefined THEN "hinglish" ELSE language)
    IN  IF sel = Inherited THEN Inherited ELSE "localized redirect/" \o sel

\* the queries processHealthQuery is called with
ProcQueries ==
    {EmptyText, FeverText, MoviesText, BukharText, HiText, FeverMovieText,
     HelloCricketText, NamasteText, UpperHeadacheText, TenText, ElevenText,
     OkText, NothingText, NameText, DastText, KhansiBukharText, FilmBukharText,
     DottedIText, BukharOnlyText}

\* how the call to the Python backend settles: fetch rejects, a non-2xx
\* status, a body that is not JSON, or a JSON body with the given fields
BackendOutcomes ==
    {"fetch_throws", "not_ok", "json_throws", "response", "message",
     "response_confidence", "neither"}

BackendText == "text from the backend"

\* data.response || data.message ;  data.confidence || 0.75
backendResult(o, detectedLanguage) ==
    [message |-> IF o \in {"response", "message", "response_confidence"}
                 THEN BackendText ELSE Undefined,
     confidence |-> IF o = "response_confidence" THEN 90 ELSE 75,
     category |-> "health",
     language |-> detectedLanguage]

ProcIdle ==
    [pc |-> "idle", query |-> <<>>, detectedLanguage |-> Undefined,
     queryValidation |-> <<>>, backend |-> "none", result |-> <<>>]

(***************************************************************************)
(* The browser client (src/script.js, class HealthAssistant): the chat     *)
(* history's child elements, the pending removal timers and the calls of   *)
(* sendMessage.  A loading indicator is identified by the call that        *)
(* created it.                                                             *)
(***************************************************************************)
NumCalls == 2
Calls == 1..NumCalls

\* detectLanguage returns one of these three tags
ClientLanguages == {"hindi", "english", "hinglish"}

\* how the request to /api/chat settles: fetch rejects, the body is not JSON,
\* or it is a JSON object with a text as message, without a message
\* ({error: ...}), with the message "", or with an object as message (what
\* response.message || response of the handler sends for a router result
\* without text)
ClientOutcomes ==
    {"fetch_throws", "json_throws", "message", "no_message", "empty_message",
     "object_message"}

\* data.message is truthy
TruthyMessage(o) == o \in {"message", "object_message"}

\* text.replace(...) of formatMessage: a TypeError when text is no string
formatMessageThrows(o) == o = "object_message"

QueryTyped(c) == "query " \o ToString(c)
ServerMessage(c) == "message of the server for query " \o ToString(c)

\* messages[language] || messages['hinglish']
getErrorMessage(language) ==
    LET sel == selectByLanguage(language)
    IN  IF sel = Inherited THEN Inherited ELSE "no response/" \o sel

getConnectionErrorMessage(language) ==
    LET sel == selectByLanguage(language)
    IN  IF sel = Inherited THEN Inherited ELSE "connection failed/" \o sel

\* msg.className = `message ${sender}`; this.chatHistory.appendChild(msg)
appendMessage(cl, text, sender, c) ==
    [cl EXCEPT !.chatHistory =
        Append(@, [className |-> sender, id |-> "", text |-> text, call |-> c])]

\* loading.className = 'message bot'; loading.id = 'loadingMsg'; appendChild
showLoading(cl, c) ==
    [cl EXCEPT !.chatHistory =
        Append(@, [className |-> "bot", id |-> "loadingMsg",
                   text |-> "Preparing response...", call |-> c])]

\* document.getElementById(id): the first element in document order that
\* has the id, 0 for null
getElementById(cl, id) ==
    LET found == {i \in 1..Len(cl.chatHistory) : cl.chatHistory[i].id = id}
    IN  IF found = {} THEN 0 ELSE CHOOSE i \in found : \A j \in found : i <= j

\* if (loading) setTimeout(() => loading.remove(), 300)
removeLoading(cl) ==
    LET loading == getElementById(cl, "loadingMsg")
    IN  IF loading # 0
        THEN [cl EXCEPT !.timers = Append(@, cl.chatHistory[loading].call)]
        ELSE cl

ClientCallIdle ==
    [pc |-> "idle", detectedLanguage |-> "hinglish", outcome |-> "pending"]

ClientIdle ==
    [chatHistory |-> <<>>, timers |-> <<>>, call |-> [c \in Calls |-> ClientCallIdle]]

(***************************************************************************)
(* Provider credentials (process.env).                                     *)
(***************************************************************************)
\* mutant: Hugging Face is tried before Gemini
ProvidersSwapped == <<"huggingface", "gemini", "openai">>

Providers == <<"gemini", "huggingface", "openai">>

ProviderSet == {Providers[i] : i \in 1..Len(Providers)}

RealKey == "a-real-credential"

\* the placeholder each handler compares the credential with
Placeholder(v, p) ==
    IF v = "chat"
    THEN CASE p = "gemini"      -> "your_gemini_api_key_here_free_tier_available"
           [] p = "huggingface" -> "your_huggingface_token_here_free_tier_available"
           [] p = "openai"      -> "sk-your_openai_api_key_here_requires_5_dollar_billing"
    ELSE CASE p = "gemini"      -> "your_gemini_api_key_here_free_tier_available"
           [] p = "huggingface" -> "your_huggingface_api_key_here_free_tier"
           [] p = "openai"      -> "your_openai_api_key_here_paid_optional"

\* the values of the README's .env template
ReadmePlaceholder(p) ==
    CASE p = "gemini"      -> "your_gemini_api_key_here"
      [] p = "huggingface" -> "hf_your_actual_huggingface_token_here"
      [] p = "openai"      -> "sk-your-actual-openai-key-here"

\* Environments: every combination of unset and real credentials, and the
\* environments in which all three hold the empty string or a placeholder.
Environments ==
    [ProviderSet -> {Undefined, RealKey}]
    \cup {[p \in ProviderSet |-> ""]}
    \cup {[p \in ProviderSet |-> Placeholder(v, p)] : v \in {"chat", "simple"}}
    \cup {[p \in ProviderSet |-> ReadmePlaceholder(p)]}

\* process.env.X_API_KEY && process.env.X_API_KEY !== '<placeholder>'
Configured(p) == ~Falsy(env[p]) /\ env[p] # Placeholder(variant, p)

(***************************************************************************)
(* Provider calls.  The outcome of the HTTP exchange is the environment's  *)
(* choice: fetch rejects, a non-2xx status, a 2xx JSON body {} without the *)
(* expected field, a 2xx body whose text is "", a 2xx body with a text.    *)
(***************************************************************************)
Outcomes == {"fetch_throws", "non2xx", "no_field", "empty_text", "text"}

ProviderText(p) == "text from " \o p

Threw == [threw |-> TRUE, value |-> Undefined]
Returned(v) == [threw |-> FALSE, value |-> v]

\* data.candidates[0].content.parts[0].text
getGeminiResponse(o) ==
    CASE o \in {"fetch_throws", "non2xx", "no_field"} -> Threw
      [] o = "empty_text" -> Returned("")
      [] o = "text" -> Returned(ProviderText("gemini"))

\* data.choices[0].message.content
getOpenAIResponse(o) ==
    CASE o \in {"fetch_throws", "non2xx", "no_field"} -> Threw
      [] o = "empty_text" -> Returned("")
      [] o = "text" -> Returned(ProviderText("openai"))

HuggingFaceDefault == "I'm here to help with your health questions."

\* chat: data[0].generated_text
\* simple: result.generated_text || result[0]?.generated_text || default
getHuggingFaceResponse(o) ==
    IF variant = "chat"
    THEN CASE o \in {"fetch_throws", "non2xx", "no_field"} -> Threw
           [] o = "empty_text" -> Returned("")
           [] o = "text" -> Returned(ProviderText("huggingface"))
    ELSE CASE o \in {"fetch_throws", "non2xx"} -> Threw
           [] o \in {"no_field", "empty_text"} -> Returned(HuggingFaceDefault)
           [] o = "text" -> Returned(ProviderText("huggingface"))

callProvider(p, o) ==
    CASE p = "gemini" -> getGeminiResponse(o)
      [] p = "huggingface" -> getHuggingFaceResponse(o)
      [] p = "openai" -> getOpenAIResponse(o)

(***************************************************************************)
(* Requests.  A body field holds a string (its code units) or a number; a  *)
(* field that is not an own property of the body reads as undefined.       *)
(***************************************************************************)
JsStr(chars) == [t |-> "string", s |-> chars]
JsNum        == [t |-> "number", s |-> <<>>]
JsUndef      == [t |-> "undefined", s |-> <<>>]

Truthy(v) == (v.t = "string" /\ v.s # <<>>) \/ v.t = "number"

Methods == {"OPTIONS", "GET", "DELETE", "POST"}

QueryValues ==
    {JsUndef, JsNum, JsStr(EmptyText), JsStr(BlankText), JsStr(FeverText),
     JsStr(MoviesText), JsStr(BukharText)}

Languages == {Undefined, "hindi", "english", "tamil", "constructor"}

BodyOf(q, m, l) ==
    [f \in (IF q = JsUndef THEN {} ELSE {"query"})
           \cup (IF m = JsUndef THEN {} ELSE {"message"})
           \cup (IF l = Undefined THEN {} ELSE {"detectedLanguage"}) |->
        CASE f = "query" -> q
          [] f = "message" -> m
          [] f = "detectedLanguage" -> l]

\* The bodies requests are drawn from: every query value alone, the fever query
\* with every language tag, the error cases with a language tag, and a message
\* field beside a query that is absent, empty or blank.
Bodies ==
    {BodyOf(q, JsUndef, Undefined) : q \in QueryValues}
    \cup {BodyOf(q, JsUndef, l) : q \in {JsNum, JsStr(FeverText)}, l \in Languages}
    \cup {BodyOf(q, JsStr(HiText), Undefined) :
             q \in {JsUndef, JsStr(EmptyText), JsStr(BlankText)}}
    \cup {BodyOf(JsUndef, JsStr(EmptyText), Undefined),
          BodyOf(JsStr(EmptyText), JsStr(BlankText), Undefined)}

\* req.body.<field> of a body that is an object
Field(body, f) ==
    IF f \in DOMAIN body THEN body[f]
    ELSE IF f = "detectedLanguage" THEN Undefined ELSE JsUndef

NoRequest == [method |-> "none", hasBody |-> FALSE, body |-> <<>>]

ResInit == [status |-> 0, headers |-> {}, sent |-> "none", body |-> <<>>]

LocalInit ==
    [bodyRead |-> FALSE, escaped |-> FALSE, userMessage |-> <<>>,
     detectedLanguage |-> Undefined, response |-> Undefined,
     aiProvider |-> Undefined, fallbackCalls |-> 0, result |-> <<>>]

CorsHeaders ==
    {<<"Access-Control-Allow-Origin", "*">>,
     <<"Access-Control-Allow-Methods", "GET, POST, OPTIONS">>,
     <<"Access-Control-Allow-Headers", "Content-Type">>}

Init ==
    /\ variant \in {"chat", "simple"}
    /\ env \in Environments
    /\ supabase \in (IF variant = "chat" THEN BOOLEAN ELSE {FALSE})
    /\ dbInitialized = FALSE
    /\ pc = [r \in Reqs |-> "idle"]
    /\ req = [r \in Reqs |-> NoRequest]
    /\ res = [r \in Reqs |-> ResInit]
    /\ local = [r \in Reqs |-> LocalInit]
    /\ calls = [r \in Reqs |-> <<>>]
    /\ inserts = [r \in Reqs |-> <<>>]
    /\ proc = ProcIdle
    /\ client = ClientIdle

(***************************************************************************)
(* handler: method dispatch.                                               *)
(***************************************************************************)
\* the platform invokes handler(req, res); here invocations do not overlap,
\* and the first slot serves each of them
Receive(r) ==
    /\ r = 1
    /\ \A q \in Reqs : pc[q] = "idle"
    /\ \E m \in Methods, hasBody \in BOOLEAN, b \in Bodies :
          /\ hasBody \/ b = <<>>
          /\ req' = [req EXCEPT ![r] = [method |-> m, hasBody |-> hasBody, body |-> b]]
    /\ pc' = [pc EXCEPT ![r] = "cors"]
    /\ UNCHANGED <<client, proc, variant, env, supabase, dbInitialized, res, local, calls, inserts>>

SetCorsHeaders(r) ==
    /\ pc[r] = "cors"
    /\ res' = [res EXCEPT ![r].headers = CorsHeaders]
    /\ pc' = [pc EXCEPT ![r] = "method"]
    /\ UNCHANGED <<client, proc, variant, env, supabase, dbInitialized, req, local, calls, inserts>>

\* mutant: the OPTIONS branch is missing and a preflight gets the 405
OptionsNotAllowed(r) ==
    /\ pc[r] = "method"
    /\ req[r].method = "OPTIONS"
    /\ res' = [res EXCEPT ![r].status = 405, ![r].sent = "json",
                          ![r].body = [error |-> "Method not allowed"]]
    /\ pc' = [pc EXCEPT ![r] = "done"]
    /\ UNCHANGED <<client, proc, variant, env, supabase, dbInitialized, req, local, calls, inserts>>

Options(r) ==
    /\ pc[r] = "method"
    /\ req[r].method = "OPTIONS"
    /\ res' = [res EXCEPT ![r].status = 200, ![r].sent = "end"]
    /\ pc' = [pc EXCEPT ![r] = "done"]
    /\ UNCHANGED <<client, proc, variant, env, supabase, dbInitialized, req, local, calls, inserts>>

\* mutant: the database is initialised before the method is looked at
MethodNotAllowedAfterInit(r) ==
    /\ pc[r] = "method"
    /\ req[r].method \notin {"OPTIONS", "POST"}
    /\ dbInitialized' = supabase
    /\ res' = [res EXCEPT ![r].status = 405, ![r].sent = "json",
                          ![r].body = [error |-> "Method not allowed"]]
    /\ pc' = [pc EXCEPT ![r] = "done"]
    /\ UNCHANGED <<client, proc, variant, env, supabase, req, local, calls, inserts>>

MethodNotAllowed(r) ==
    /\ pc[r] = "method"
    /\ req[r].method \notin {"OPTIONS", "POST"}
    /\ res' = [res EXCEPT ![r].status = 405, ![r].sent = "json",
                          ![r].body = [error |-> "Method not allowed"]]
    /\ pc' = [pc EXCEPT ![r] = "done"]
    /\ UNCHANGED <<client, proc, variant, env, supabase, dbInitialized, req, local, calls, inserts>>

Post(r) ==
    /\ pc[r] = "method"
    /\ req[r].method = "POST"
    /\ pc' = [pc EXCEPT ![r] = IF variant = "chat" THEN "dbinit" ELSE "body"]
    /\ UNCHANGED <<client, proc, variant, env, supabase, dbInitialized, req, res, local, calls, inserts>>

(***************************************************************************)
(* handler (src/api/chat.js): database initialisation on first request.    *)
(***************************************************************************)
\* mutant: initializeDatabase is called whatever the flag says
InitializeDatabaseCallAlways(r) ==
    /\ pc[r] = "dbinit"
    /\ supabase
    /\ pc' = [pc EXCEPT ![r] = "await_dbinit"]
    /\ UNCHANGED <<client, proc, variant, env, supabase, dbInitialized, req, res, local, calls, inserts>>

InitializeDatabaseCall(r) ==
    /\ pc[r] = "dbinit"
    /\ ~dbInitialized /\ supabase
    /\ pc' = [pc EXCEPT ![r] = "await_dbinit"]
    /\ UNCHANGED <<client, proc, variant, env, supabase, dbInitialized, req, res, local, calls, inserts>>

InitializeDatabaseSkip(r) ==
    /\ pc[r] = "dbinit"
    /\ ~(~dbInitialized /\ supabase)
    /\ pc' = [pc EXCEPT ![r] = "body"]
    /\ UNCHANGED <<client, proc, variant, env, supabase, dbInitialized, req, res, local, calls, inserts>>

\* mutant: a failed initialization is answered with the 500
InitializeDatabaseReturnOr500(r) ==
    /\ pc[r] = "await_dbinit"
    /\ \E ok \in BOOLEAN :
          /\ dbInitialized' = ok
          /\ IF ok
             THEN pc' = [pc EXCEPT ![r] = "body"] /\ UNCHANGED res
             ELSE /\ pc' = [pc EXCEPT ![r] = "done"]
                  /\ res' = [res EXCEPT ![r].status = 500, ![r].sent = "json",
                                ![r].body = [error |-> "Internal server error",
                                              message |-> "apology/hinglish"]]
    /\ UNCHANGED <<client, proc, variant, env, supabase, req, local, calls, inserts>>

\* initializeDatabase resolves true, or false when any of its steps threw
InitializeDatabaseReturn(r) ==
    /\ pc[r] = "await_dbinit"
    /\ \E ok \in BOOLEAN : dbInitialized' = ok
    /\ pc' = [pc EXCEPT ![r] = "body"]
    /\ UNCHANGED <<client, proc, variant, env, supabase, req, res, local, calls, inserts>>

(***************************************************************************)
(* handler: reading and validating the body (the start of the try block).  *)
(***************************************************************************)
\* const userMessage = query || message
userMessageOf(body) ==
    IF Truthy(Field(body, "query")) THEN Field(body, "query")
    ELSE Field(body, "message")

\* detectedLanguage = 'hinglish' applies when the field is undefined
detectedLanguageOf(body) ==
    IF Field(body, "detectedLanguage") = Undefined THEN "hinglish"
    ELSE Field(body, "detectedLanguage")

\* mutant: the query is not trimmed before its length is tested
isMissingUntrimmed(userMessage) == ~Truthy(userMessage)

\* !userMessage || userMessage.trim().length === 0, for a string or undefined
isMissing(userMessage) ==
    \/ ~Truthy(userMessage)
    \/ userMessage.t = "string" /\ Len(trim(userMessage.s)) = 0

Apology(language) ==
    LET sel == selectByLanguage(language)
    IN  IF sel = Inherited THEN Inherited ELSE "apology/" \o sel

SimpleApology == "simple/apology/hindi"

\* the body of the 500 response the catch block sends
ServerError(language, details) ==
    IF variant = "chat"
    THEN [error |-> "Internal server error", message |-> Apology(language)]
    ELSE [error |-> "Internal server error", message |-> SimpleApology,
          details |-> details]

\* req.body is undefined: the destructuring throws; in src/api/chat.js the
\* catch block reads req.body.detectedLanguage and throws again
BodyUndefined(r) ==
    /\ pc[r] = "body"
    /\ ~req[r].hasBody
    /\ IF variant = "chat"
       THEN /\ local' = [local EXCEPT ![r].bodyRead = TRUE, ![r].escaped = TRUE]
            /\ UNCHANGED res
       ELSE /\ local' = [local EXCEPT ![r].bodyRead = TRUE]
            /\ res' = [res EXCEPT ![r].status = 500, ![r].sent = "json",
                          ![r].body = ServerError(Undefined, "TypeError: destructure")]
    /\ pc' = [pc EXCEPT ![r] = "done"]
    /\ UNCHANGED <<client, proc, variant, env, supabase, dbInitialized, req, calls, inserts>>

QueryRequired(r) ==
    /\ pc[r] = "body"
    /\ req[r].hasBody
    /\ isMissing(userMessageOf(req[r].body))
    /\ local' = [local EXCEPT ![r].bodyRead = TRUE]
    /\ res' = [res EXCEPT ![r].status = 400, ![r].sent = "json",
                          ![r].body = [error |-> "Query is required"]]
    /\ pc' = [pc EXCEPT ![r] = "done"]
    /\ UNCHANGED <<client, proc, variant, env, supabase, dbInitialized, req, calls, inserts>>

\* userMessage is truthy but has no trim method: TypeError, caught
QueryNotString(r) ==
    /\ pc[r] = "body"
    /\ req[r].hasBody
    /\ ~isMissing(userMessageOf(req[r].body))
    /\ userMessageOf(req[r].body).t # "string"
    /\ local' = [local EXCEPT ![r].bodyRead = TRUE]
    /\ res' = [res EXCEPT ![r].status = 500, ![r].sent = "json",
                  ![r].body = ServerError(Field(req[r].body, "detectedLanguage"),
                                          "TypeError: userMessage.trim")]
    /\ pc' = [pc EXCEPT ![r] = "done"]
    /\ UNCHANGED <<client, proc, variant, env, supabase, dbInitialized, req, calls, inserts>>

\* mutant: the handler does not store the user turn before it calls the router
QueryAcceptedNoUserStore(r) ==
    /\ pc[r] = "body"
    /\ req[r].hasBody
    /\ ~isMissing(userMessageOf(req[r].body))
    /\ userMessageOf(req[r].body).t = "string"
    /\ local' = [local EXCEPT ![r].bodyRead = TRUE,
                              ![r].userMessage = userMessageOf(req[r].body).s,
                              ![r].detectedLanguage = detectedLanguageOf(req[r].body)]
    /\ pc' = [pc EXCEPT ![r] = "router"]
    /\ UNCHANGED <<client, proc, variant, env, supabase, dbInitialized, req, res, calls, inserts>>

QueryAccepted(r) ==
    /\ pc[r] = "body"
    /\ req[r].hasBody
    /\ ~isMissing(userMessageOf(req[r].body))
    /\ userMessageOf(req[r].body).t = "string"
    /\ local' = [local EXCEPT ![r].bodyRead = TRUE,
                              ![r].userMessage = userMessageOf(req[r].body).s,
                              ![r].detectedLanguage = detectedLanguageOf(req[r].body)]
    /\ pc' = [pc EXCEPT ![r] = IF variant = "chat" THEN "store_user" ELSE "router"]
    /\ UNCHANGED <<client, proc, variant, env, supabase, dbInitialized, req, res, calls, inserts>>

(***************************************************************************)
(* storeChatMessage (src/unnamed/part_000), awaited by src/api/chat.js.    *)
(***************************************************************************)
StoreOutcomes == {"stored", "error", "throws"}

AfterStore(t) == IF t = "user" THEN "router" ELSE "respond"

\* response.message || response
messageOf(result) ==
    IF Falsy(result.message) THEN "<the response object>" ELSE result.message

\* if (!supabase) return null
storeChatMessageSkip(r, t) ==
    /\ pc[r] = "store_" \o t
    /\ ~supabase
    /\ pc' = [pc EXCEPT ![r] = AfterStore(t)]
    /\ UNCHANGED <<client, proc, variant, env, supabase, dbInitialized, req, res, local, calls, inserts>>

\* supabase.from('chat_history').insert([...]).select()
storeChatMessageInsert(r, t) ==
    /\ pc[r] = "store_" \o t
    /\ supabase
    /\ inserts' = [inserts EXCEPT ![r] = Append(@,
          [message_type |-> t,
           message |-> IF t = "user" THEN "<userMessage>"
                       ELSE messageOf(local[r].result),
           outcome |-> "pending"])]
    /\ pc' = [pc EXCEPT ![r] = "await_store_" \o t]
    /\ UNCHANGED <<client, proc, variant, env, supabase, dbInitialized, req, res, local, calls>>

\* mutant: storeChatMessage has no try/catch, and an insert that throws
\* reaches the handler's catch block
storeChatMessageReturnUncaught(r, t) ==
    /\ pc[r] = "await_store_" \o t
    /\ \E o \in StoreOutcomes :
          /\ inserts' = [inserts EXCEPT ![r][Len(inserts[r])].outcome = o]
          /\ IF o = "throws"
             THEN /\ res' = [res EXCEPT ![r].status = 500, ![r].sent = "json",
                         ![r].body = ServerError(Field(req[r].body, "detectedLanguage"),
                                                 "Error")]
                  /\ pc' = [pc EXCEPT ![r] = "done"]
             ELSE /\ pc' = [pc EXCEPT ![r] = AfterStore(t)]
                  /\ UNCHANGED res
    /\ UNCHANGED <<client, proc, variant, env, supabase, dbInitialized, req, local, calls>>

\* the insert resolves with a row, resolves with an error, or throws: the
\* function returns without raising in each case
storeChatMessageReturn(r, t) ==
    /\ pc[r] = "await_store_" \o t
    /\ \E o \in StoreOutcomes :
          inserts' = [inserts EXCEPT ![r][Len(inserts[r])].outcome = o]
    /\ pc' = [pc EXCEPT ![r] = AfterStore(t)]
    /\ UNCHANGED <<client, proc, variant, env, supabase, dbInitialized, req, res, local, calls>>

(***************************************************************************)
(* processHealthQueryWithAI: the provider router.                          *)
(***************************************************************************)
TryPc(i) == IF i > Len(Providers) THEN "fallback" ELSE "try_" \o Providers[i]

AwaitPc(i) == "await_" \o Providers[i]

\* let response; let aiProvider = 'fallback'
RouterStart(r) ==
    /\ pc[r] = "router"
    /\ local' = [local EXCEPT ![r].response = Undefined,
                              ![r].aiProvider = "fallback"]
    /\ pc' = [pc EXCEPT ![r] = TryPc(1)]
    /\ UNCHANGED <<client, proc, variant, env, supabase, dbInitialized, req, res, calls, inserts>>

\* mutant: the later ifs do not test !response
ShouldTryIgnoringResponse(r, i) == Configured(Providers[i])

\* the condition of the i-th if: the first one does not test response
ShouldTry(r, i) ==
    /\ i = 1 \/ Falsy(local[r].response)
    /\ Configured(Providers[i])

\* response = await getXResponse(message, language): the call is issued
TryProvider(r, i) ==
    /\ pc[r] = TryPc(i)
    /\ ShouldTry(r, i)
    /\ calls' = [calls EXCEPT ![r] = Append(@,
                    [provider |-> Providers[i], outcome |-> "pending"])]
    /\ pc' = [pc EXCEPT ![r] = AwaitPc(i)]
    /\ UNCHANGED <<client, proc, variant, env, supabase, dbInitialized, req, res, local, inserts>>

\* mutant: a provider that is skipped sends the router back to the first one
SkipProviderRestart(r, i) ==
    /\ pc[r] = TryPc(i)
    /\ ~ShouldTry(r, i)
    /\ pc' = [pc EXCEPT ![r] = TryPc(1)]
    /\ UNCHANGED <<client, proc, variant, env, supabase, dbInitialized, req, res, local, calls, inserts>>

SkipProvider(r, i) ==
    /\ pc[r] = TryPc(i)
    /\ ~ShouldTry(r, i)
    /\ pc' = [pc EXCEPT ![r] = TryPc(i + 1)]
    /\ UNCHANGED <<client, proc, variant, env, supabase, dbInitialized, req, res, local, calls, inserts>>

\* mutant: the inner try/catch is missing and a provider's error reaches the
\* handler, which answers 500
ProviderReturnsUncaught(r, i) ==
    /\ pc[r] = "await_" \o Providers[i]
    /\ \E o \in Outcomes :
          LET out == callProvider(Providers[i], o)
          IN  /\ calls' = [calls EXCEPT ![r][Len(calls[r])].outcome = o]
              /\ IF out.threw
                 THEN /\ res' = [res EXCEPT ![r].status = 500, ![r].sent = "json",
                             ![r].body = ServerError(local[r].detectedLanguage, "Error")]
                      /\ pc' = [pc EXCEPT ![r] = "done"]
                      /\ UNCHANGED local
                 ELSE /\ local' = [local EXCEPT ![r].response = out.value,
                                                ![r].aiProvider = Providers[i]]
                      /\ pc' = [pc EXCEPT ![r] =
                             IF i + 1 > Len(Providers) THEN "fallback"
                             ELSE "try_" \o Providers[i + 1]]
                      /\ UNCHANGED res
    /\ UNCHANGED <<client, proc, variant, env, supabase, dbInitialized, req, inserts>>

\* mutant: a provider's answer is kept but aiProvider is not set
ProviderReturnsUntagged(r, i) ==
    /\ pc[r] = AwaitPc(i)
    /\ \E o \in Outcomes :
          LET out == callProvider(Providers[i], o)
          IN  /\ calls' = [calls EXCEPT ![r][Len(calls[r])].outcome = o]
              /\ local' = IF out.threw
                          THEN [local EXCEPT ![r].response = Null]
                          ELSE [local EXCEPT ![r].response = out.value]
    /\ pc' = [pc EXCEPT ![r] = TryPc(i + 1)]
    /\ UNCHANGED <<client, proc, variant, env, supabase, dbInitialized, req, res, inserts>>

\* mutant: a provider whose call threw is tried once more
ProviderReturnsRetry(r, i) ==
    /\ pc[r] = AwaitPc(i)
    /\ \E o \in Outcomes :
          LET out == callProvider(Providers[i], o)
          IN  /\ calls' = [calls EXCEPT ![r][Len(calls[r])].outcome = o]
              /\ local' = IF out.threw
                          THEN [local EXCEPT ![r].response = Null]
                          ELSE [local EXCEPT ![r].response = out.value,
                                             ![r].aiProvider = Providers[i]]
              /\ pc' = [pc EXCEPT ![r] =
                          IF out.threw /\ Len(calls[r]) < 2 * i
                          THEN TryPc(i) ELSE TryPc(i + 1)]
    /\ UNCHANGED <<client, proc, variant, env, supabase, dbInitialized, req, res, inserts>>

\* the awaited call settles: on a value, response = value and aiProvider = X;
\* on a throw, the inner catch sets response = null
ProviderReturns(r, i) ==
    /\ pc[r] = AwaitPc(i)
    /\ \E o \in Outcomes :
          LET out == callProvider(Providers[i], o)
          IN  /\ calls' = [calls EXCEPT ![r][Len(calls[r])].outcome = o]
              /\ local' = IF out.threw
                          THEN [local EXCEPT ![r].response = Null]
                          ELSE [local EXCEPT ![r].response = out.value,
                                             ![r].aiProvider = Providers[i]]
    /\ pc' = [pc EXCEPT ![r] = TryPc(i + 1)]
    /\ UNCHANGED <<client, proc, variant, env, supabase, dbInitialized, req, res, inserts>>

\* mutant: the fallback stage does not set aiProvider
RouterFallbackUntagged(r) ==
    /\ pc[r] = "fallback"
    /\ Falsy(local[r].response)
    /\ local' = [local EXCEPT
          ![r].response = getEnhancedFallbackResponse(local[r].userMessage,
                                                      local[r].detectedLanguage),
          ![r].fallbackCalls = @ + 1]
    /\ pc' = [pc EXCEPT ![r] = "return"]
    /\ UNCHANGED <<client, proc, variant, env, supabase, dbInitialized, req, res, calls, inserts>>

\* if (!response) { response = getEnhancedFallbackResponse(...); ... }
RouterFallback(r) ==
    /\ pc[r] = "fallback"
    /\ Falsy(local[r].response)
    /\ local' = [local EXCEPT
          ![r].response = getEnhancedFallbackResponse(local[r].userMessage,
                                                      local[r].detectedLanguage),
          ![r].aiProvider = "enhanced_fallback",
          ![r].fallbackCalls = @ + 1]
    /\ pc' = [pc EXCEPT ![r] = "return"]
    /\ UNCHANGED <<client, proc, variant, env, supabase, dbInitialized, req, res, calls, inserts>>

RouterKeepResponse(r) ==
    /\ pc[r] = "fallback"
    /\ ~Falsy(local[r].response)
    /\ pc' = [pc EXCEPT ![r] = "return"]
    /\ UNCHANGED <<client, proc, variant, env, supabase, dbInitialized, req, res, local, calls, inserts>>

\* confidence: aiProvider === 'fallback' ? 0.7 : 0.85   (src/api/chat.js)
\* confidence: aiProvider === 'fallback' ? 0.6 : 0.8    (src/unnamed/part_001)
confidenceOf(aiProvider) ==
    IF variant = "chat"
    THEN (IF aiProvider = "fallback" THEN 70 ELSE 85)
    ELSE (IF aiProvider = "fallback" THEN 60 ELSE 80)

\* the object the router returns
routerResult(response, language, aiProvider) ==
    IF variant = "chat"
    THEN [message |-> response, confidence |-> confidenceOf(aiProvider),
          language |-> language, category |-> "health", provider |-> aiProvider]
    ELSE [message |-> response, confidence |-> confidenceOf(aiProvider),
          language |-> language, provider |-> aiProvider]

\* mutant: the handler does not store the bot turn
RouterReturnNoStore(r) ==
    /\ pc[r] = "return"
    /\ local' = [local EXCEPT ![r].result =
          routerResult(local[r].response, local[r].detectedLanguage,
                       local[r].aiProvider)]
    /\ pc' = [pc EXCEPT ![r] = "respond"]
    /\ UNCHANGED <<client, proc, variant, env, supabase, dbInitialized, req, res, calls, inserts>>

\* return {...}; the handler's  if (!response) throw  never fires on an object
RouterReturn(r) ==
    /\ pc[r] = "return"
    /\ local' = [local EXCEPT ![r].result =
          routerResult(local[r].response, local[r].detectedLanguage,
                       local[r].aiProvider)]
    /\ pc' = [pc EXCEPT ![r] = IF variant = "chat" THEN "store_bot" ELSE "respond"]
    /\ UNCHANGED <<client, proc, variant, env, supabase, dbInitialized, req, res, calls, inserts>>

(***************************************************************************)
(* handler: the 200 response.                                              *)
(***************************************************************************)
\* response.confidence || 0.75 ;  response.language || detectedLanguage
successBody(result, detectedLanguage) ==
    IF variant = "chat"
    THEN [message |-> messageOf(result), voiceResponse |-> FALSE,
          timestamp |-> "<now>", sessionId |-> "<sessionId>",
          category |-> "health",
          language |-> Or(result.language, detectedLanguage),
          confidence |-> IF result.confidence = 0 THEN 75 ELSE result.confidence]
    ELSE [success |-> TRUE, message |-> messageOf(result),
          confidence |-> IF result.confidence = 0 THEN 75 ELSE result.confidence,
          language |-> Or(result.language, detectedLanguage),
          timestamp |-> "<now>", isVoiceOutput |-> FALSE]

Respond(r) ==
    /\ pc[r] = "respond"
    /\ res' = [res EXCEPT ![r].status = 200, ![r].sent = "json",
                  ![r].body = successBody(local[r].result, local[r].detectedLanguage)]
    /\ pc' = [pc EXCEPT ![r] = "done"]
    /\ UNCHANGED <<client, proc, variant, env, supabase, dbInitialized, req, local, calls, inserts>>

\* the invocation is over; the slot serves the next request
Finish(r) ==
    /\ pc[r] = "done"
    /\ pc' = [pc EXCEPT ![r] = "idle"]
    /\ req' = [req EXCEPT ![r] = NoRequest]
    /\ res' = [res EXCEPT ![r] = ResInit]
    /\ local' = [local EXCEPT ![r] = LocalInit]
    /\ calls' = [calls EXCEPT ![r] = <<>>]
    /\ inserts' = [inserts EXCEPT ![r] = <<>>]
    /\ UNCHANGED <<client, proc, variant, env, supabase, dbInitialized>>

Next ==
    \E r \in Reqs :
        \/ Receive(r)
        \/ SetCorsHeaders(r)
        \/ Options(r)
        \/ MethodNotAllowed(r)
        \/ Post(r)
        \/ InitializeDatabaseCall(r)
        \/ InitializeDatabaseSkip(r)
        \/ InitializeDatabaseReturn(r)
        \/ BodyUndefined(r)
        \/ QueryRequired(r)
        \/ QueryNotString(r)
        \/ QueryAccepted(r)
        \/ \E t \in {"user", "bot"} :
              \/ storeChatMessageSkip(r, t)
              \/ storeChatMessageInsert(r, t)
              \/ storeChatMessageReturn(r, t)
        \/ RouterStart(r)
        \/ \E i \in 1..Len(Providers) :
              \/ TryProvider(r, i)
              \/ SkipProvider(r, i)
              \/ ProviderReturns(r, i)
        \/ RouterFallback(r)
        \/ RouterKeepResponse(r)
        \/ RouterReturn(r)
        \/ Respond(r)
        \/ Finish(r)

Spec == Init /\ [][Next]_vars

(***************************************************************************)
(* processHealthQuery(query, isVoiceInput, detectedLanguage) on its own:   *)
(* one call with a string query, run to its return or its rejection.       *)
(***************************************************************************)
ProcInit ==
    /\ variant = "chat"
    /\ env = [p \in ProviderSet |-> Undefined]
    /\ supabase = FALSE
    /\ dbInitialized = FALSE
    /\ pc = [r \in Reqs |-> "idle"]
    /\ req = [r \in Reqs |-> NoRequest]
    /\ res = [r \in Reqs |-> ResInit]
    /\ local = [r \in Reqs |-> LocalInit]
    /\ calls = [r \in Reqs |-> <<>>]
    /\ inserts = [r \in Reqs |-> <<>>]
    /\ client = ClientIdle
    /\ \E q \in ProcQueries, l \in Languages :
          proc = [ProcIdle EXCEPT !.pc = "validate", !.query = q,
                                  !.detectedLanguage = IF l = Undefined THEN "hinglish"
                                                       ELSE l]

\* const queryValidation = validateHealthQuery(query); a query that is not
\* valid is answered with the localized redirect message
ProcValidate ==
    /\ proc.pc = "validate"
    /\ LET queryValidation == validateHealthQuery(proc.query)
       IN  proc' = IF ~queryValidation.isValid
                   THEN [proc EXCEPT
                           !.queryValidation = queryValidation,
                           !.result = [message |->
                                          getLocalizedRedirectMessage(proc.detectedLanguage),
                                       confidence |-> 95, category |-> "redirect"],
                           !.pc = "returned"]
                   ELSE [proc EXCEPT !.queryValidation = queryValidation,
                                     !.pc = "await_backend"]
    /\ UNCHANGED <<client, variant, env, supabase, dbInitialized, pc, req, res, local, calls,
                   inserts>>

\* await fetch(...); if (!response.ok) throw; await response.json(); return
ProcBackendSettles ==
    /\ proc.pc = "await_backend"
    /\ \E o \in BackendOutcomes :
          proc' = IF o \in {"fetch_throws", "not_ok", "json_throws"}
                  THEN [proc EXCEPT !.backend = o, !.pc = "catch"]
                  ELSE [proc EXCEPT !.backend = o,
                                    !.result = backendResult(o, proc.detectedLanguage),
                                    !.pc = "returned"]
    /\ UNCHANGED <<client, variant, env, supabase, dbInitialized, pc, req, res, local, calls,
                   inserts>>

\* catch (error) { return generateRuralFallbackResponse(query, detectedLanguage) }
\* an error thrown inside the catch block rejects the promise
ProcCatch ==
    /\ proc.pc = "catch"
    /\ LET out == generateRuralFallbackResponse(proc.query)
       IN  proc' = IF out.threw THEN [proc EXCEPT !.pc = "rejected"]
                   ELSE [proc EXCEPT !.result = out.value, !.pc = "returned"]
    /\ UNCHANGED <<client, variant, env, supabase, dbInitialized, pc, req, res, local, calls,
                   inserts>>

ProcNext == ProcValidate \/ ProcBackendSettles \/ ProcCatch

ProcSpec == ProcInit /\ [][ProcNext]_vars

(***************************************************************************)
(* Vocabulary of the properties.                                           *)
(***************************************************************************)
\* processHealthQueryWithAI has been entered by invocation r
RouterEntered(r) == local[r].aiProvider # Undefined

\* the handler is past its  await processHealthQueryWithAI(...)
RouterReturned(r) ==
    /\ RouterEntered(r)
    /\ pc[r] \in {"store_bot", "await_store_bot", "respond", "done"}

IsResponse(x) ==
    {"message", "confidence", "language", "provider"} \subseteq DOMAIN x

\* the call settled by throwing / by returning a value
CallThrew(c) ==
    c.outcome # "pending" /\ callProvider(c.provider, c.outcome).threw

CallReturned(c) ==
    c.outcome # "pending" /\ ~callProvider(c.provider, c.outcome).threw

CallValue(c) == callProvider(c.provider, c.outcome).value

(***************************************************************************)
(* C1: processHealthQueryWithAI never raises to its caller: whatever the   *)
(* message, the language tag, the credentials and the outcome of each      *)
(* provider call, once entered it raises nothing, and the handler is past  *)
(* the call exactly when it holds the one Response object the router       *)
(* returned.                                                               *)
(***************************************************************************)
C1_RouterNeverRaises ==
    \A r \in Reqs :
        /\ RouterEntered(r) => ~local[r].escaped
        /\ RouterEntered(r) =>
              (RouterReturned(r) <=> IsResponse(local[r].result))
        /\ ~RouterEntered(r) => local[r].result = <<>>

\* all three providers were called and each failed in a different way, and
\* the router still returned a Response
C1_Witness ==
    \E r \in Reqs :
        /\ pc[r] = "done"
        /\ IsResponse(local[r].result)
        /\ Len(calls[r]) = 3
        /\ {calls[r][k].outcome : k \in 1..3} = {"fetch_throws", "non2xx", "no_field"}

\* the documented priority of a provider: Gemini, then Hugging Face, then OpenAI
Priority(p) ==
    CASE p = "gemini" -> 1
      [] p = "huggingface" -> 2
      [] p = "openai" -> 3

\* the call gave the router no response: it threw, or returned an empty text
CallFailed(c) == CallThrew(c) \/ (CallReturned(c) /\ Falsy(CallValue(c)))

\* the configured providers of lower priority than p
LaterConfigured(p) ==
    {q \in ProviderSet : Configured(q) /\ Priority(q) > Priority(p)}

FallbackTags == {"fallback", "enhanced_fallback", "emergency_fallback"}

\* the calls of a run are in strictly descending priority
CallsInPriorityOrder(cs) ==
    \A j, k \in 1..Len(cs) :
        j < k => Priority(cs[j].provider) < Priority(cs[k].provider)

\* after a call that threw, the next call is to the next configured provider,
\* and it is issued before the router returns
NextConfiguredFollowsThrow(r, cs) ==
    \A k \in 1..Len(cs) :
        CallThrew(cs[k]) /\ LaterConfigured(cs[k].provider) # {}
            => /\ k < Len(cs) =>
                    /\ cs[k + 1].provider \in LaterConfigured(cs[k].provider)
                    /\ \A q \in LaterConfigured(cs[k].provider) :
                          Priority(cs[k + 1].provider) <= Priority(q)
               /\ RouterReturned(r) => k < Len(cs)

(***************************************************************************)
(* C2 as claimed: within one router run the providers are attempted in the *)
(* order Gemini, Hugging Face, OpenAI: whenever a call throws, the next    *)
(* configured provider in that order is the next one called, and no        *)
(* provider is called before every configured provider of higher priority  *)
(* has been called and has failed, that is, has thrown.                    *)
(***************************************************************************)
C2_Original ==
    \A r \in Reqs :
        LET cs == calls[r]
        IN  /\ CallsInPriorityOrder(cs)
            /\ NextConfiguredFollowsThrow(r, cs)
            /\ \A k \in 1..Len(cs) : \A q \in ProviderSet :
                  Configured(q) /\ Priority(q) < Priority(cs[k].provider)
                      => \E j \in 1..(k - 1) : cs[j].provider = q /\ CallThrew(cs[j])

(***************************************************************************)
(* C2 as amended: the same, where a provider is called only after every    *)
(* configured provider of higher priority has been called and has either   *)
(* thrown or returned an empty text.                                       *)
(***************************************************************************)
C2_PriorityOrder ==
    \A r \in Reqs :
        LET cs == calls[r]
        IN  /\ CallsInPriorityOrder(cs)
            /\ NextConfiguredFollowsThrow(r, cs)
            /\ \A k \in 1..Len(cs) : \A q \in ProviderSet :
                  Configured(q) /\ Priority(q) < Priority(cs[k].provider)
                      => \E j \in 1..(k - 1) : cs[j].provider = q /\ CallFailed(cs[j])

\* Gemini threw and Hugging Face, configured, was called next
C2_Witness ==
    \E r \in Reqs :
        /\ Len(calls[r]) >= 2
        /\ calls[r][1].provider = "gemini" /\ CallThrew(calls[r][1])
        /\ calls[r][2].provider = "huggingface"
        /\ Configured("openai")

(***************************************************************************)
(* C3 as claimed: once any provider call returns without throwing, no      *)
(* later provider is called, the fallback responder is not invoked, and    *)
(* the returned message is that provider's text.                           *)
(***************************************************************************)
C3_Original ==
    \A r \in Reqs : \A k \in 1..Len(calls[r]) :
        CallReturned(calls[r][k])
            => /\ k = Len(calls[r])
               /\ local[r].fallbackCalls = 0
               /\ IsResponse(local[r].result)
                     => local[r].result.message = CallValue(calls[r][k])

(***************************************************************************)
(* C3 as amended: once a provider call returns a non-empty text without    *)
(* throwing, no later provider is called, the fallback responder is not    *)
(* invoked, and the returned message is that provider's text.              *)
(***************************************************************************)
C3_ShortCircuit ==
    \A r \in Reqs : \A k \in 1..Len(calls[r]) :
        CallReturned(calls[r][k]) /\ ~Falsy(CallValue(calls[r][k]))
            => /\ k = Len(calls[r])
               /\ local[r].fallbackCalls = 0
               /\ IsResponse(local[r].result)
                     => local[r].result.message = CallValue(calls[r][k])

\* Gemini answered with a text while the other two providers were configured,
\* and the router returned that text
C3_Witness ==
    \E r \in Reqs :
        /\ pc[r] = "done"
        /\ Len(calls[r]) = 1
        /\ calls[r][1] = [provider |-> "gemini", outcome |-> "text"]
        /\ Configured("huggingface") /\ Configured("openai")
        /\ local[r].result.message = ProviderText("gemini")

(***************************************************************************)
(* C4: if all three provider credentials are absent, then for every        *)
(* message and language tag no provider call is issued and the router's    *)
(* Response has a fallback provider tag and a non-empty message.           *)
(***************************************************************************)
AllCredentialsAbsent == \A p \in ProviderSet : env[p] = Undefined

C4_NoCredentialsFallback ==
    \A r \in Reqs :
        AllCredentialsAbsent /\ RouterEntered(r)
            => /\ calls[r] = <<>>
               /\ IsResponse(local[r].result)
                     => /\ local[r].result.provider \in FallbackTags
                        /\ ~Falsy(local[r].result.message)

(***************************************************************************)
(* The router on its own: processHealthQueryWithAI(message, language) is   *)
(* entered with an accepted query (the handler is at its call, in a        *)
(* deployment without a database client) and runs to its return.  With     *)
(* fairness: an awaited call settles and the runtime then runs the         *)
(* continuation, so a step that stays possible is eventually taken.        *)
(***************************************************************************)
RouterInputs ==
    {BodyOf(JsStr(FeverText), JsUndef, l) : l \in Languages}
    \cup {BodyOf(JsStr(BukharText), JsUndef, Undefined)}

RouterInit ==
    /\ variant \in {"chat", "simple"}
    /\ env \in Environments
    /\ supabase = FALSE
    /\ dbInitialized = FALSE
    /\ \E b \in RouterInputs :
          /\ req = [r \in Reqs |->
                IF r = 1 THEN [method |-> "POST", hasBody |-> TRUE, body |-> b]
                ELSE NoRequest]
          /\ local = [r \in Reqs |->
                IF r = 1
                THEN [LocalInit EXCEPT !.bodyRead = TRUE,
                                       !.userMessage = userMessageOf(b).s,
                                       !.detectedLanguage = detectedLanguageOf(b)]
                ELSE LocalInit]
    /\ pc = [r \in Reqs |-> IF r = 1 THEN "router" ELSE "idle"]
    /\ res = [r \in Reqs |-> IF r = 1 THEN [ResInit EXCEPT !.headers = CorsHeaders]
                                       ELSE ResInit]
    /\ calls = [r \in Reqs |-> <<>>]
    /\ inserts = [r \in Reqs |-> <<>>]
    /\ proc = ProcIdle
    /\ client = ClientIdle

RouterNext ==
    \E r \in Reqs :
        \/ RouterStart(r)
        \/ \E i \in 1..Len(Providers) :
              \/ TryProvider(r, i)
              \/ SkipProvider(r, i)
              \/ ProviderReturns(r, i)
        \/ RouterFallback(r)
        \/ RouterKeepResponse(r)
        \/ RouterReturn(r)

RouterFairSpec == RouterInit /\ [][RouterNext]_vars /\ WF_vars(RouterNext)

\* the position of a run in START -> TRY_PROVIDER_1 -> TRY_PROVIDER_2 ->
\* TRY_PROVIDER_3 -> FALLBACK -> DONE
RouterRank(p) ==
    CASE p = "router" -> 0
      [] p \in {"try_gemini", "await_gemini"} -> 1
      [] p \in {"try_huggingface", "await_huggingface"} -> 2
      [] p \in {"try_openai", "await_openai"} -> 3
      [] p = "fallback" -> 4
      [] OTHER -> 5

(***************************************************************************)
(* C5: the router always terminates in DONE: every run that starts         *)
(* eventually returns its Response to the handler, and within a run the    *)
(* state never moves back to an earlier one.                               *)
(***************************************************************************)
C5_RouterTerminates ==
    /\ \A r \in Reqs : (pc[r] = "router") ~> RouterReturned(r)
    /\ [][\A r \in Reqs :
            (pc[r] = "router" \/ RouterEntered(r)) /\ pc'[r] # "idle"
                => RouterRank(pc'[r]) >= RouterRank(pc[r])]_vars

\* a run went through all three providers and the fallback and returned
C5_Witness ==
    \E r \in Reqs :
        /\ RouterReturned(r)
        /\ Len(calls[r]) = 3
        /\ local[r].fallbackCalls = 1

(***************************************************************************)
(* C6: a Response of the local fallback stage carries a strictly lower     *)
(* confidence than one of a remote provider: a provider tag gemini,        *)
(* huggingface or openai goes with the provider-tier value, a fallback tag *)
(* with the lower fallback-tier value (0.85 and 0.7 in src/api/chat.js,    *)
(* 0.8 and 0.6 in the simplified handler).                                 *)
(***************************************************************************)
ProviderTier == IF variant = "chat" THEN 85 ELSE 80

FallbackTier == IF variant = "chat" THEN 70 ELSE 60

C6_FallbackLowerConfidence ==
    \A r \in Reqs :
        IsResponse(local[r].result)
            => /\ local[r].result.provider \in ProviderSet
                     => local[r].result.confidence = ProviderTier
               /\ local[r].result.provider \in FallbackTags
                     => /\ local[r].result.confidence = FallbackTier
                        /\ local[r].result.confidence < ProviderTier

(***************************************************************************)
(* C7: with every provider credential unset, a POST with the query         *)
(* BukharText ("mujhe bukhar hai", in Devanagari) is answered 200 with a   *)
(* provider field that is a fallback tag and a confidence between 0.60 and *)
(* 0.70.                                                                   *)
(***************************************************************************)
C7_FallbackEndToEnd ==
    \A r \in Reqs :
        /\ pc[r] = "done"
        /\ req[r].method = "POST" /\ req[r].hasBody
        /\ Field(req[r].body, "query") = JsStr(BukharText)
        /\ AllCredentialsAbsent
        => /\ res[r].status = 200
           /\ "provider" \in DOMAIN res[r].body
           /\ res[r].body.provider \in FallbackTags
           /\ res[r].body.confidence \in 60..70

(***************************************************************************)
(* C8: the handler runs the classifier before the router: for a POST whose *)
(* query contains an off-topic keyword the router is not entered, no       *)
(* provider call is attempted, and the answer is 200 with the off-topic    *)
(* redirect text as its message.                                           *)
(***************************************************************************)
OffTopic(r) ==
    /\ local[r].userMessage # <<>>
    /\ some(nonHealthKeywords, toLowerCase(local[r].userMessage))

C8_ClassifierBeforeRouter ==
    \A r \in Reqs :
        OffTopic(r)
            => /\ ~RouterEntered(r)
               /\ calls[r] = <<>>
               /\ pc[r] = "done"
                     => /\ res[r].status = 200
                        /\ res[r].body.message
                              = validateHealthQuery(local[r].userMessage).redirectMessage

(***************************************************************************)
(* C9 as claimed: a POST whose body has no query and no message, or whose  *)
(* query is empty or whitespace-only, is answered 400 with                 *)
(* {error: "Query is required"}.                                          *)
(***************************************************************************)
IsBlankString(v) == v.t = "string" /\ \A i \in 1..Len(v.s) : v.s[i] \in {" ", "\t", "\n"}

QueryRequiredAnswer(r) ==
    /\ res[r].status = 400
    /\ res[r].sent = "json"
    /\ res[r].body = [error |-> "Query is required"]

UserText(body) ==
    IF "query" \in DOMAIN body /\ body.query # JsStr(<<>>) THEN body.query
    ELSE IF "message" \in DOMAIN body THEN body.message
    ELSE JsUndef

C10_MethodDispatch ==
    \A r \in Reqs :
        /\ res[r].status # 0 =>
              res[r].headers = {<<"Access-Control-Allow-Origin", "*">>,
                                <<"Access-Control-Allow-Methods", "GET, POST, OPTIONS">>,
                                <<"Access-Control-Allow-Headers", "Content-Type">>}
        /\ req[r].method \notin {"none", "POST"} => ~local[r].bodyRead
        /\ pc[r] = "done" /\ req[r].method = "OPTIONS"
              => res[r].status = 200 /\ res[r].sent = "end" /\ res[r].body = <<>>
        /\ pc[r] = "done" /\ req[r].method \notin {"OPTIONS", "POST"}
              => /\ res[r].status = 405 /\ res[r].sent = "json"
                 /\ res[r].body = [error |-> "Method not allowed"]

\* a DELETE that carried a body was answered 405
C10_Witness ==
    \E r \in Reqs :
        /\ pc[r] = "done"
        /\ req[r].method = "DELETE" /\ req[r].hasBody
        /\ res[r].status = 405

(***************************************************************************)
(* C11: persistence of the two turns.                                      *)
(***************************************************************************)
\* the handler has answered invocation r
Answered(r) == pc[r] = "done" /\ res[r].sent # "none"

\* the message_type of each row invocation r has submitted, in order
SubmittedTypes(r) == [k \in 1..Len(inserts[r]) |-> inserts[r][k].message_type]

\* a row that was submitted keeps its content; rows are only ever added
RowsOnlyAppended ==
    \A r \in Reqs :
        pc'[r] # "idle" =>
            /\ Len(inserts'[r]) >= Len(inserts[r])
            /\ \A k \in 1..Len(inserts[r]) :
                  /\ inserts'[r][k].message_type = inserts[r][k].message_type
                  /\ inserts'[r][k].message = inserts[r][k].message

\* C11 as stated: every request the handler has answered, whatever the
\* answer, has submitted one 'user' row and one 'bot' row to the insert
\* interface.
C11_Original ==
    \A r \in Reqs : Answered(r) => SubmittedTypes(r) = <<"user", "bot">>

\* C11 (amended): a request answered 200 by the handler of src/api/chat.js
\* while a database client exists has submitted exactly two rows to the
\* insert interface, a 'user' row and then a 'bot' row; every other answered
\* request (400, 405, 500, the OPTIONS preflight, any request without a
\* database client, any request to the simplified handler) has submitted no
\* row; and a submitted row is never changed or removed.
C11_TwoRowsWhenAnswered ==
    /\ [](\A r \in Reqs :
            Answered(r) =>
                IF res[r].status = 200 /\ res[r].sent = "json" /\ supabase
                THEN SubmittedTypes(r) = <<"user", "bot">>
                ELSE inserts[r] = <<>>)
    /\ [][RowsOnlyAppended]_vars

\* a request answered 200 whose two rows were submitted, the first of which
\* the database refused
C11_Witness ==
    \E r \in Reqs :
        /\ Answered(r) /\ res[r].status = 200 /\ supabase
        /\ Len(inserts[r]) = 2
        /\ inserts[r][1].outcome = "error"
        /\ inserts[r][2].outcome = "stored"

(***************************************************************************)
(* C12: persistence failures and the HTTP response.                        *)
(***************************************************************************)
\* the body of the request is one the handler accepts: a non-blank string
AcceptedBody(r) ==
    /\ req[r].method = "POST" /\ req[r].hasBody
    /\ ~isMissing(userMessageOf(req[r].body))
    /\ userMessageOf(req[r].body).t = "string"

\* the calls of invocation r that gave the router its response
AnsweringCalls(r) ==
    {k \in 1..Len(calls[r]) :
        CallReturned(calls[r][k]) /\ ~Falsy(CallValue(calls[r][k]))}

\* the Response that follows from the request and the outcomes of the provider
\* calls alone: the text of the provider that answered, else the fallback text
RoutedResponse(r) ==
    LET language == detectedLanguageOf(req[r].body)
    IN  IF AnsweringCalls(r) # {}
        THEN LET k == CHOOSE k \in AnsweringCalls(r) : TRUE
             IN  routerResult(CallValue(calls[r][k]), language, calls[r][k].provider)
        ELSE routerResult(
                 getEnhancedFallbackResponse(userMessageOf(req[r].body).s, language),
                 language, "enhanced_fallback")

\* C12: in the handler of src/api/chat.js, whether storeChatMessage finds no
\* database client, gets an insert error or the insert throws, it returns
\* without raising, and the status and body of the answer are those that
\* follow from the request and the provider outcomes alone: the same 200
\* answer as when both inserts succeed.
C12_PersistenceNeverAffectsResponse ==
    \A r \in Reqs :
        variant = "chat" /\ AcceptedBody(r) =>
            /\ ~local[r].escaped
            /\ pc[r] = "done" =>
                  /\ res[r].status = 200 /\ res[r].sent = "json"
                  /\ res[r].body = successBody(RoutedResponse(r),
                                               detectedLanguageOf(req[r].body))

\* a request answered 200 although one insert was refused and the other threw
C12_Witness ==
    \E r \in Reqs :
        /\ variant = "chat" /\ AcceptedBody(r)
        /\ pc[r] = "done" /\ res[r].status = 200
        /\ Len(inserts[r]) = 2
        /\ inserts[r][1].outcome = "throws"
        /\ inserts[r][2].outcome = "error"

(***************************************************************************)
(* C13: unexpected errors in the handler.                                  *)
(***************************************************************************)
\* processing the POST raised an error that is not one of the validation
\* answers: the body is missing, or the user text is not a string
UnexpectedError(r) ==
    /\ req[r].method = "POST" /\ local[r].bodyRead
    /\ \/ ~req[r].hasBody
       \/ /\ ~isMissing(userMessageOf(req[r].body))
          /\ userMessageOf(req[r].body).t # "string"

\* the language tag the request carries, if it has a body to carry one
RequestLanguage(r) ==
    IF req[r].hasBody THEN Field(req[r].body, "detectedLanguage") ELSE Undefined

\* the apology strings that fit a language tag: the one of that language, the
\* hinglish one when the tag is not a recognised language
ApologiesFor(language) ==
    IF language = "hindi" THEN {"apology/hindi", SimpleApology}
    ELSE IF language = "english" THEN {"apology/english"}
    ELSE {"apology/hinglish"}

\* C13: any unexpected error raised while a POST is processed (a missing
\* body, a query that is not a string) is caught at the top level and answered
\* with one 500 response {error, message} whose message is the apology string
\* selected by the request's detectedLanguage, the hinglish one when the tag
\* is not recognised; no exception escapes the handler.
C13_UnexpectedErrorAnswered500 ==
    \A r \in Reqs :
        /\ ~local[r].escaped
        /\ UnexpectedError(r) /\ pc[r] = "done" =>
              /\ res[r].status = 500 /\ res[r].sent = "json"
              /\ {"error", "message"} \subseteq DOMAIN res[r].body
              /\ res[r].body.message \in ApologiesFor(RequestLanguage(r))

(***************************************************************************)
(* C14-C16: the classifier, in terms of what the query contains.  A query  *)
(* contains a keyword when the keyword occurs in it, letter case aside.    *)
(***************************************************************************)
ContainsAny(words, query) ==
    \E i \in 1..Len(words) : includes(toLowerCase(query), words[i])

HasOffTopicKeyword(query) == ContainsAny(nonHealthKeywords, query)
HasHealthKeyword(query) == ContainsAny(healthKeywords, query)
HasGreeting(query) == ContainsAny(greetings, query)

\* validateHealthQuery has been applied to the query of the call
Classified == proc.queryValidation # <<>>

\* C14: for every query containing an off-topic keyword, validateHealthQuery
\* returns isValid = false with the off-topic redirect message, whether or
\* not the query also contains a health keyword or a greeting.
C14_OffTopicPrecedence ==
    Classified /\ HasOffTopicKeyword(proc.query) =>
        /\ proc.queryValidation.isValid = FALSE
        /\ proc.queryValidation.redirectMessage = OffTopicRedirect

\* a query with both an off-topic and a health keyword was rejected
C14_Witness ==
    /\ Classified
    /\ HasOffTopicKeyword(proc.query) /\ HasHealthKeyword(proc.query)
    /\ proc.queryValidation.isValid = FALSE

\* C15 as stated: every query containing a health keyword, in Hindi or in
\* English, is valid.
C15_Original ==
    Classified /\ HasHealthKeyword(proc.query) => proc.queryValidation.isValid = TRUE

\* C15 (amended): every query that contains a health keyword, in Hindi or in
\* English, and no off-topic keyword is valid.
C15_HealthKeywordAccepted ==
    Classified /\ HasHealthKeyword(proc.query) /\ ~HasOffTopicKeyword(proc.query)
        => proc.queryValidation.isValid = TRUE

\* a long query whose only keyword is a health keyword in capitals was accepted
C15_Witness ==
    /\ Classified
    /\ proc.query = UpperHeadacheText
    /\ HasHealthKeyword(proc.query) /\ ~HasGreeting(proc.query)
    /\ proc.queryValidation.isValid = TRUE

\* the query was rejected with the second redirect message
RejectedNoKeyword ==
    /\ proc.queryValidation.isValid = FALSE
    /\ proc.queryValidation.redirectMessage = NoKeywordRedirect

\* C16 as stated: a query with no off-topic keyword is rejected, with the
\* second redirect message, exactly when it has no health keyword, matches no
\* greeting and its length exceeds 10; otherwise it is accepted.
C16_Original ==
    Classified /\ ~HasOffTopicKeyword(proc.query) =>
        IF ~HasHealthKeyword(proc.query) /\ ~HasGreeting(proc.query)
           /\ Len(proc.query) > 10
        THEN RejectedNoKeyword
        ELSE proc.queryValidation.isValid = TRUE

\* C16 (amended): the same, where the length that must exceed 10 is the
\* number of UTF-16 code units of the lower-cased query.
C16_RejectedWhenLongAndUnclassified ==
    Classified /\ ~HasOffTopicKeyword(proc.query) =>
        IF ~HasHealthKeyword(proc.query) /\ ~HasGreeting(proc.query)
           /\ Len(toLowerCase(proc.query)) > 10
        THEN RejectedNoKeyword
        ELSE proc.queryValidation.isValid = TRUE

\* an unclassified query of 11 code units was rejected
C16_Witness ==
    /\ Classified
    /\ Len(toLowerCase(proc.query)) = 11
    /\ ~HasHealthKeyword(proc.query) /\ ~HasGreeting(proc.query)
    /\ RejectedNoKeyword

(***************************************************************************)
(* C17: the fallback responder of processHealthQuery.                      *)
(***************************************************************************)
\* the conditions of the table, by position, that the lower-cased query contains
ConditionsIn(query) ==
    {i \in 1..Len(RuralRules) : ContainsAny(RuralRules[i].words, query)}

\* the first of them in the table's order
FirstCondition(query) ==
    RuralRules[CHOOSE i \in ConditionsIn(query) :
                  \A j \in ConditionsIn(query) : i <= j].key

\* the call fell back to generateRuralFallbackResponse and is over
FellBack ==
    /\ proc.pc \in {"returned", "rejected"}
    /\ proc.backend \in {"fetch_throws", "not_ok", "json_throws"}

\* C17: the fallback responder returns the condition-specific canned text,
\* not the generic default, whenever the lower-cased query contains a
\* condition keyword: generateRuralFallbackResponse returns the answer of the
\* first condition in the table's order that the query contains, with the
\* emergency-disclaimer suffix (for the query "bukhar" in Devanagari, with
\* language hindi, the fever answer).
C17_ConditionSpecificAnswer ==
    FellBack /\ ConditionsIn(proc.query) # {} =>
        /\ proc.pc = "returned"
        /\ proc.result.message = RuralAnswer(FirstCondition(proc.query)) \o EmergencySuffix

(***************************************************************************)
(* C18: one provider key is enough.                                        *)
(***************************************************************************)
\* only provider p has a key; the other two variables are not set
OnlyKey(p) ==
    /\ env[p] = RealKey
    /\ \A q \in ProviderSet \ {p} : env[q] = Undefined

\* the router has returned the enhanced fallback response for the request
ReturnedEnhancedFallback(r) ==
    /\ local[r].fallbackCalls = 1
    /\ local[r].result.provider = "enhanced_fallback"
    /\ local[r].result.message =
          getEnhancedFallbackResponse(local[r].userMessage, local[r].detectedLanguage)

\* C18 as stated: when only P's key is configured and P's call succeeds, that
\* is, returns without throwing, the router returns P's text with provider
\* tag P and calls no other provider; with no keys at all it returns the
\* enhanced fallback response.
C18_Original ==
    \A r \in Reqs :
        /\ \A p \in ProviderSet :
              OnlyKey(p) /\ RouterReturned(r)
              /\ Len(calls[r]) >= 1 /\ CallReturned(calls[r][1])
                  => /\ calls[r] = <<[provider |-> p, outcome |-> calls[r][1].outcome]>>
                     /\ local[r].result.message = CallValue(calls[r][1])
                     /\ local[r].result.provider = p
        /\ AllCredentialsAbsent /\ RouterReturned(r)
              => calls[r] = <<>> /\ ReturnedEnhancedFallback(r)

\* C18 (amended): when only P's key is configured and P's call returns a
\* non-empty text, the router returns that text with provider tag P and has
\* called no other provider; with only P's key no provider other than P is
\* ever called; with no keys at all no provider is called and the router
\* returns the enhanced fallback response.
C18_OneKeyIsEnough ==
    \A r \in Reqs :
        /\ \A p \in ProviderSet :
              OnlyKey(p) =>
                  /\ \A k \in 1..Len(calls[r]) : calls[r][k].provider = p
                  /\ RouterReturned(r) /\ Len(calls[r]) >= 1
                     /\ CallReturned(calls[r][1]) /\ ~Falsy(CallValue(calls[r][1]))
                        => /\ Len(calls[r]) = 1
                           /\ local[r].result.message = CallValue(calls[r][1])
                           /\ local[r].result.provider = p
        /\ AllCredentialsAbsent /\ RouterReturned(r)
              => calls[r] = <<>> /\ ReturnedEnhancedFallback(r)

\* only the OpenAI key is set, its call answered, and the router returned the
\* text tagged openai
C18_Witness ==
    \E r \in Reqs :
        /\ OnlyKey("openai") /\ RouterReturned(r)
        /\ calls[r] = <<[provider |-> "openai", outcome |-> "text"]>>
        /\ local[r].result.provider = "openai"
        /\ local[r].result.message = ProviderText("openai")

(***************************************************************************)
(* C19: unconfigured providers are never called.                           *)
(***************************************************************************)
\* the placeholder strings documented for provider p: the one each handler
\* compares with, and the one of the README's .env template
DocumentedPlaceholders(p) ==
    {Placeholder("chat", p), Placeholder("simple", p), ReadmePlaceholder(p)}

\* the credential of p is absent, empty or a documented placeholder
Unconfigured(p) ==
    env[p] \in {Undefined, ""} \cup DocumentedPlaceholders(p)

\* C19: a provider whose credential is absent, empty or equal to its
\* documented placeholder string is never called, the placeholder being the
\* same string wherever it is defined (both handlers and the README's .env
\* template): no call is ever issued to a provider that is unconfigured in
\* this sense.
C19_UnconfiguredNeverCalled ==
    \A r \in Reqs : \A k \in 1..Len(calls[r]) :
        ~Unconfigured(calls[r][k].provider)

(***************************************************************************)
(* C20: no retry, and one provider call at a time.                         *)
(***************************************************************************)
\* the calls of invocation r that have been issued and have not settled
InFlight(r) == {k \in 1..Len(calls[r]) : calls[r][k].outcome = "pending"}

\* no provider is called twice, and at most one call is in flight
OneCallAtATime(r) ==
    /\ \A j, k \in 1..Len(calls[r]) :
          j # k => calls[r][j].provider # calls[r][k].provider
    /\ Cardinality(InFlight(r)) <= 1

\* C20 as stated: within one request each provider is called at most once
\* and at most one provider call is in flight at any time: a call is issued
\* only after the previous provider's call has completed with a failure,
\* that is, has thrown.
C20_Original ==
    \A r \in Reqs :
        /\ OneCallAtATime(r)
        /\ \A k \in 2..Len(calls[r]) : CallThrew(calls[r][k - 1])

\* C20 (amended): the same, where the previous provider's call has completed
\* by throwing or by returning no text (an empty or missing text).
C20_NoRetryOneInFlight ==
    \A r \in Reqs :
        /\ OneCallAtATime(r)
        /\ \A k \in 2..Len(calls[r]) : CallFailed(calls[r][k - 1])

\* the third provider's call is in flight after the first two calls failed
C20_Witness ==
    \E r \in Reqs :
        /\ Len(calls[r]) = 3
        /\ CallThrew(calls[r][1]) /\ CallFailed(calls[r][2])
        /\ InFlight(r) = {3}

(***************************************************************************)
(* C21: the provider tag of a Response.                                    *)
(***************************************************************************)
LocalTags == {"enhanced_fallback", "emergency_fallback"}

\* the message of invocation r's Response was produced by the local fallback
ProducedLocally(r) ==
    /\ local[r].fallbackCalls = 1
    /\ local[r].result.message =
          getEnhancedFallbackResponse(local[r].userMessage, local[r].detectedLanguage)

\* the message of invocation r's Response is the text that the call to
\* provider p returned, and that call was the last one issued
ProducedBy(r, p) ==
    /\ local[r].fallbackCalls = 0
    /\ calls[r] # <<>>
    /\ LET c == calls[r][Len(calls[r])]
       IN  /\ c.provider = p
           /\ CallReturned(c)
           /\ local[r].result.message = CallValue(c)

\* C21: the provider field of every router Response names the stage that
\* produced the returned message: it is gemini, huggingface or openai only
\* if the message is the text that provider's call returned, it is a fallback
\* tag (enhanced_fallback, emergency_fallback) exactly when the message was
\* produced locally, and it is never the initial value 'fallback'.
C21_ProviderTagNamesStage ==
    \A r \in Reqs :
        IsResponse(local[r].result) =>
            /\ local[r].result.provider # "fallback"
            /\ local[r].result.provider \in ProviderSet \cup LocalTags
            /\ local[r].result.provider \in ProviderSet
                  => ProducedBy(r, local[r].result.provider)
            /\ local[r].result.provider \in LocalTags <=> ProducedLocally(r)

\* Gemini returned an empty text, which set aiProvider to gemini, and the
\* Response that was returned carries the fallback's message and tag
C21_Witness ==
    \E r \in Reqs :
        /\ IsResponse(local[r].result)
        /\ calls[r] = <<[provider |-> "gemini", outcome |-> "empty_text"]>>
        /\ local[r].result.provider = "enhanced_fallback"
        /\ ProducedLocally(r)

(***************************************************************************)
(* C22: the order of the events of one request (src/api/chat.js).          *)
(***************************************************************************)
\* the insert of the row of type t has been submitted / has settled
InsertAttempted(r, t) ==
    \E k \in 1..Len(inserts[r]) : inserts[r][k].message_type = t

InsertSettled(r, t) ==
    \E k \in 1..Len(inserts[r]) :
        inserts[r][k].message_type = t /\ inserts[r][k].outcome # "pending"

InsertFailed(r) ==
    \E k \in 1..Len(inserts[r]) : inserts[r][k].outcome \in {"error", "throws"}

\* C22: within one request of a deployment with a database client, the
\* user-turn insert is attempted and awaited before the first provider call
\* is issued (and before the router is entered), the bot-turn insert is
\* attempted only after the router has returned its Response, and the 200
\* response is sent after the bot-turn insert attempt has settled; a failed
\* insert changes nothing of this and the request is still answered 200.
C22_EventOrder ==
    \A r \in Reqs :
        variant = "chat" /\ supabase =>
            /\ RouterEntered(r) \/ calls[r] # <<>> => InsertSettled(r, "user")
            /\ InsertAttempted(r, "bot") =>
                  /\ IsResponse(local[r].result)
                  /\ InFlight(r) = {}
                  /\ InsertSettled(r, "user")
            /\ res[r].status = 200 /\ res[r].sent = "json" => InsertSettled(r, "bot")
            /\ pc[r] = "done" /\ InsertFailed(r) => res[r].status = 200

\* both inserts failed, a provider was called in between, and the request was
\* answered 200
C22_Witness ==
    \E r \in Reqs :
        /\ variant = "chat" /\ supabase
        /\ pc[r] = "done" /\ res[r].status = 200
        /\ Len(calls[r]) >= 1
        /\ Len(inserts[r]) = 2
        /\ inserts[r][1].outcome = "error" /\ inserts[r][2].outcome = "throws"

(***************************************************************************)
(* Concurrent invocations of the handler of src/api/chat.js.  The platform *)
(* may invoke the handler again while earlier invocations are suspended at *)
(* an await; the invocations share the module-level flag dbInitialized.    *)
(* Every request is the same accepted POST, no provider is configured and  *)
(* the database accepts every insert.  With fairness: an invocation that   *)
(* can take a step eventually takes one.                                   *)
(***************************************************************************)
RaceBody == BodyOf(JsStr(FeverText), JsUndef, Undefined)

\* every insert invocation r has submitted is pending or was stored
RaceInsertsStored(r) ==
    \A k \in 1..Len(inserts[r]) : inserts[r][k].outcome \in {"pending", "stored"}

RaceInit ==
    /\ variant = "chat"
    /\ env = [p \in ProviderSet |-> Undefined]
    /\ supabase \in BOOLEAN
    /\ dbInitialized = FALSE
    /\ pc = [r \in Reqs |-> "idle"]
    /\ req = [r \in Reqs |-> NoRequest]
    /\ res = [r \in Reqs |-> ResInit]
    /\ local = [r \in Reqs |-> LocalInit]
    /\ calls = [r \in Reqs |-> <<>>]
    /\ inserts = [r \in Reqs |-> <<>>]
    /\ proc = ProcIdle
    /\ client = ClientIdle

\* handler(req, res) is invoked on an idle slot, whatever the others are doing
RaceReceive(r) ==
    /\ pc[r] = "idle"
    /\ req' = [req EXCEPT ![r] = [method |-> "POST", hasBody |-> TRUE,
                                  body |-> RaceBody]]
    /\ pc' = [pc EXCEPT ![r] = "cors"]
    /\ UNCHANGED <<client, proc, variant, env, supabase, dbInitialized, res, local, calls, inserts>>

\* the steps of invocation r after it was received
RaceStep(r) ==
    \/ SetCorsHeaders(r)
    \/ Post(r)
    \/ InitializeDatabaseCall(r)
    \/ InitializeDatabaseSkip(r)
    \/ InitializeDatabaseReturn(r)
    \/ QueryAccepted(r)
    \/ \E t \in {"user", "bot"} :
          \/ storeChatMessageSkip(r, t)
          \/ storeChatMessageInsert(r, t)
          \/ storeChatMessageReturn(r, t) /\ RaceInsertsStored(r)'
    \/ RouterStart(r)
    \/ \E i \in 1..Len(Providers) : SkipProvider(r, i)
    \/ RouterFallback(r)
    \/ RouterReturn(r)
    \/ Respond(r)
    \/ Finish(r)

RaceNext == \E r \in Reqs : RaceReceive(r) \/ RaceStep(r)

RaceSpec ==
    RaceInit /\ [][RaceNext]_vars /\ \A r \in Reqs : WF_vars(RaceStep(r))

(***************************************************************************)
(* C23: the race on dbInitialized.                                         *)
(***************************************************************************)
\* invocation r has called initializeDatabase and the call has not returned
Initializing(r) == pc[r] = "await_dbinit"

\* invocation r is past the initialization block
PastInit(r) == pc[r] \notin {"idle", "cors", "method", "dbinit", "await_dbinit"}

\* C23: each request invokes initializeDatabase at most once, and only if it
\* read dbInitialized = false while a database client exists; and every
\* request that invoked it, racing or not, goes on to send its own response.
\* (That two first requests can both invoke it is shown by the witness.)
C23_RedundantInitTolerated ==
    /\ [][\A r \in Reqs :
            Initializing(r)' /\ ~Initializing(r)
                => pc[r] = "dbinit" /\ ~dbInitialized /\ supabase]_vars
    /\ [][\A r \in Reqs :
            PastInit(r) /\ pc'[r] # "idle" => PastInit(r)']_vars
    /\ \A r \in Reqs :
          Initializing(r) ~> (pc[r] = "done" /\ res[r].status = 200)

\* two first requests have both read the flag as false and both calls to
\* initializeDatabase are in progress
C23_Witness ==
    \E r1, r2 \in Reqs :
        r1 # r2 /\ Initializing(r1) /\ Initializing(r2)

(***************************************************************************)
(* C24: the fallback responder's result is always well-defined.            *)
(***************************************************************************)
\* the default message the language tag selects, the hinglish one for a tag
\* that is not a recognised language
DefaultMessageFor(language) ==
    IF language \in OwnLanguages THEN "rural/default/" \o language
    ELSE "rural/default/hinglish"

\* C24: for every query string and every language tag,
\* generateRuralFallbackResponse returns without throwing a response with a
\* non-empty message and confidence 0.70 when a condition keyword matched,
\* 0.60 when none did, the no-match message being the default selected by
\* the language tag (the hinglish one for an unrecognised tag); so
\* processHealthQuery resolves with a response whenever its backend call
\* fails.
C24_FallbackWellDefined ==
    FellBack =>
        /\ proc.pc = "returned"
        /\ ~Falsy(proc.result.message)
        /\ IF ConditionsIn(proc.query) # {}
           THEN proc.result.confidence = 70
           ELSE /\ proc.result.confidence = 60
                /\ proc.result.message = DefaultMessageFor(proc.detectedLanguage)

(***************************************************************************)
(* C25: requests are stateless.                                            *)
(***************************************************************************)
\* the answer that follows from the deployed handler, the request and the
\* outcomes of its provider calls alone: the status, how it is sent, and the
\* body (for a 200, its message, confidence and language)
AnswerOf(r) ==
    LET body == req[r].body
        um == userMessageOf(body)
    IN  IF req[r].method = "OPTIONS"
        THEN [status |-> 200, sent |-> "end", body |-> <<>>]
        ELSE IF req[r].method # "POST"
        THEN [status |-> 405, sent |-> "json", body |-> [error |-> "Method not allowed"]]
        ELSE IF ~req[r].hasBody
        THEN (IF variant = "chat"
              THEN [status |-> 0, sent |-> "none", body |-> <<>>]
              ELSE [status |-> 500, sent |-> "json",
                    body |-> ServerError(Undefined, "TypeError: destructure")])
        ELSE IF isMissing(um)
        THEN [status |-> 400, sent |-> "json", body |-> [error |-> "Query is required"]]
        ELSE IF um.t # "string"
        THEN [status |-> 500, sent |-> "json",
              body |-> ServerError(Field(body, "detectedLanguage"),
                                   "TypeError: userMessage.trim")]
        ELSE LET b == successBody(RoutedResponse(r), detectedLanguageOf(body))
             IN  [status |-> 200, sent |-> "json",
                  body |-> [message |-> b.message, confidence |-> b.confidence,
                            language |-> b.language]]

\* what the handler did answer, in the same form
Answer(r) ==
    [status |-> res[r].status, sent |-> res[r].sent,
     body |-> IF res[r].status = 200 /\ res[r].sent = "json"
              THEN [message |-> res[r].body.message,
                    confidence |-> res[r].body.confidence,
                    language |-> res[r].body.language]
              ELSE res[r].body]

\* C25: the status, message, confidence and language of the handler's
\* response to a request are determined by that request, the provider
\* configuration and the provider outcomes alone: whatever requests came
\* before, whatever the value of dbInitialized, whether a database client
\* exists and however the inserts ended, the response is the same.
C25_Stateless ==
    \A r \in Reqs : pc[r] = "done" => Answer(r) = AnswerOf(r)

\* a request answered 200 after the flag was set, while its inserts failed
C25_Witness ==
    \E r \in Reqs :
        /\ pc[r] = "done" /\ res[r].status = 200 /\ res[r].sent = "json"
        /\ dbInitialized
        /\ InsertFailed(r)
        /\ Answer(r) = AnswerOf(r)

(***************************************************************************)
(* C26: the flag once it is true.                                          *)
(***************************************************************************)
\* C26: once some request has set dbInitialized to true the flag is never
\* set back to false, and every request that reads it afterwards skips
\* initializeDatabase, for every interleaving of concurrent requests whose
\* initialization calls succeed or fail independently.
C26_FlagStaysTrue ==
    [][dbInitialized =>
          /\ dbInitialized'
          /\ \A r \in Reqs : ~Initializing(r) => ~Initializing(r)']_vars

(***************************************************************************)
(* C27: requests that are rejected early.                                  *)
(***************************************************************************)
\* invocation r serves a request whose method is not POST
NotPost(r) == req[r].method \notin {"none", "POST"}

\* C27: an OPTIONS or other non-POST request triggers no database
\* initialization, no insert and no provider call, and touches none of the
\* handler's locals; a POST answered 400 has stored no chat row and issued no
\* provider call.
C27_EarlyRejectionsTouchNothing ==
    /\ [](\A r \in Reqs :
            /\ NotPost(r) =>
                  /\ pc[r] \in {"cors", "method", "done"}
                  /\ calls[r] = <<>> /\ inserts[r] = <<>>
                  /\ local[r] = LocalInit
            /\ res[r].status = 400 =>
                  /\ calls[r] = <<>> /\ inserts[r] = <<>>
                  /\ ~RouterEntered(r))
    /\ [][(\E r \in Reqs : NotPost(r)) => dbInitialized' = dbInitialized]_vars

\* a GET was answered 405 in a deployment with a database client that no
\* request has initialised
C27_Witness ==
    \E r \in Reqs :
        /\ req[r].method = "GET" /\ pc[r] = "done" /\ res[r].status = 405
        /\ supabase /\ ~dbInitialized

(***************************************************************************)
(* C28: processHealthQuery calls the backend only for accepted queries.    *)
(***************************************************************************)
\* the redirect message in the language asked for, the hinglish one when the
\* tag names none of the three messages
RedirectMessageFor(language) ==
    "localized redirect/" \o (IF language \in OwnLanguages THEN language ELSE "hinglish")

\* C28: the backend call is made only for a query validateHealthQuery
\* accepts; a rejected query is answered, without a backend call, with
\* category 'redirect', confidence 0.95 and the redirect message localized by
\* detectedLanguage (hinglish when the tag is not recognised); the classifier
\* changes nothing but its caller's queryValidation.
C28_BackendOnlyForAccepted ==
    /\ proc.backend # "none" => validateHealthQuery(proc.query).isValid
    /\ proc.pc \in {"await_backend", "catch"} => validateHealthQuery(proc.query).isValid
    /\ proc.queryValidation # <<>> => proc.queryValidation = validateHealthQuery(proc.query)
    /\ (proc.pc = "returned" /\ ~validateHealthQuery(proc.query).isValid) =>
          /\ proc.backend = "none"
          /\ proc.result = [message |-> RedirectMessageFor(proc.detectedLanguage),
                            confidence |-> 95, category |-> "redirect"]

(***************************************************************************)
(* The browser client: sendMessage(query, isVoiceInput, detectedLanguage), *)
(* called by the form's submit listener and by recognition.onresult, which *)
(* do not wait for an earlier call.  isVoiceInput decides only whether the *)
(* answer is spoken and marked as such; speak() leaves the history alone.   *)
(***************************************************************************)
ClientInit ==
    /\ variant = "chat"
    /\ env = [p \in ProviderSet |-> Undefined]
    /\ supabase = FALSE
    /\ dbInitialized = FALSE
    /\ pc = [r \in Reqs |-> "idle"]
    /\ req = [r \in Reqs |-> NoRequest]
    /\ res = [r \in Reqs |-> ResInit]
    /\ local = [r \in Reqs |-> LocalInit]
    /\ calls = [r \in Reqs |-> <<>>]
    /\ inserts = [r \in Reqs |-> <<>>]
    /\ proc = ProcIdle
    /\ client = ClientIdle

\* mutant: the user's message is appended once more after the indicator
sendMessageTwice(c) ==
    /\ client.call[c].pc = "idle"
    /\ IF c = 1 THEN TRUE ELSE client.call[c - 1].pc # "idle"
    /\ \E detectedLanguage \in ClientLanguages :
          client' =
              [appendMessage(showLoading(appendMessage(client, QueryTyped(c), "user", c), c),
                             QueryTyped(c), "user", c)
                 EXCEPT !.call[c] = [pc |-> "await_fetch",
                                     detectedLanguage |-> detectedLanguage,
                                     outcome |-> "pending"]]
    /\ UNCHANGED <<variant, env, supabase, dbInitialized, pc, req, res, local, calls,
                   inserts, proc>>

\* this.appendMessage(query, 'user'); this.showLoading(); await fetch(...)
\* calls are numbered in the order they are made
sendMessage(c) ==
    /\ client.call[c].pc = "idle"
    /\ IF c = 1 THEN TRUE ELSE client.call[c - 1].pc # "idle"
    /\ \E detectedLanguage \in ClientLanguages :
          client' =
              [showLoading(appendMessage(client, QueryTyped(c), "user", c), c)
                 EXCEPT !.call[c] = [pc |-> "await_fetch",
                                     detectedLanguage |-> detectedLanguage,
                                     outcome |-> "pending"]]
    /\ UNCHANGED <<variant, env, supabase, dbInitialized, pc, req, res, local, calls,
                   inserts, proc>>

\* catch (error) { this.removeLoading(); this.appendMessage(
\*     this.getConnectionErrorMessage(detectedLanguage), 'bot'); }
sendMessageCatch(cl, c, o) ==
    [appendMessage(removeLoading(cl),
                   getConnectionErrorMessage(cl.call[c].detectedLanguage), "bot", c)
       EXCEPT !.call[c].pc = "done", !.call[c].outcome = o]

\* const response = await fetch('/api/chat', ...): resolves or rejects
FetchSettles(c) ==
    /\ client.call[c].pc = "await_fetch"
    /\ \/ client' = [client EXCEPT !.call[c].pc = "await_json"]
       \/ client' = sendMessageCatch(client, c, "fetch_throws")
    /\ UNCHANGED <<variant, env, supabase, dbInitialized, pc, req, res, local, calls,
                   inserts, proc>>

\* const data = await response.json(); this.removeLoading();
\* if (data.message) appendMessage(data.message, 'bot', isVoiceInput)
\* else appendMessage(this.getErrorMessage(detectedLanguage), 'bot')
\* appendMessage formats the text before it appends: when that throws, the
\* catch block runs with the first removeLoading done and nothing appended
JsonSettles(c) ==
    /\ client.call[c].pc = "await_json"
    /\ \E o \in ClientOutcomes \ {"fetch_throws"} :
          client' =
              IF o = "json_throws" THEN sendMessageCatch(client, c, o)
              ELSE IF TruthyMessage(o) /\ formatMessageThrows(o)
              THEN sendMessageCatch(removeLoading(client), c, o)
              ELSE [appendMessage(removeLoading(client),
                                  IF TruthyMessage(o) THEN ServerMessage(c)
                                  ELSE getErrorMessage(client.call[c].detectedLanguage),
                                  "bot", c)
                      EXCEPT !.call[c].pc = "done", !.call[c].outcome = o]
    /\ UNCHANGED <<variant, env, supabase, dbInitialized, pc, req, res, local, calls,
                   inserts, proc>>

\* () => loading.remove(): the timers, all of 300 ms, fire in the order they
\* were set; removing an element that is no longer in the document does nothing
TimerFires ==
    /\ client.timers # <<>>
    /\ client' =
          [client EXCEPT
             !.timers = Tail(@),
             !.chatHistory =
                 SelectSeq(@, LAMBDA e : ~(e.text = "Preparing response..."
                                           /\ e.call = Head(client.timers)))]
    /\ UNCHANGED <<variant, env, supabase, dbInitialized, pc, req, res, local, calls,
                   inserts, proc>>

ClientNext ==
    \/ \E c \in Calls : sendMessage(c) \/ FetchSettles(c) \/ JsonSettles(c)
    \/ TimerFires

ClientSpec == ClientInit /\ [][ClientNext]_vars

(***************************************************************************)
(* C29, C30: the browser client.                                           *)
(***************************************************************************)
\* the positions of the loading indicators in the chat history
LoadingIndicators ==
    {i \in 1..Len(client.chatHistory) :
        client.chatHistory[i].text = "Preparing response..."}

\* no call of sendMessage is in flight and no removal timer is pending
ClientQuiescent ==
    /\ \A c \in Calls : client.call[c].pc \in {"idle", "done"}
    /\ client.timers = <<>>

\* C29: once every sendMessage call in flight has completed and the 300 ms
\* removal timers have fired, no loading indicator remains in the chat
\* history, however the calls overlapped.
C29_NoLoadingIndicatorLeft == ClientQuiescent => LoadingIndicators = {}

\* the positions of the messages appended for call c by the given sender
MessagesOf(c, sender) ==
    {i \in 1..Len(client.chatHistory) :
        /\ client.chatHistory[i].call = c
        /\ client.chatHistory[i].className = sender
        /\ client.chatHistory[i].id = ""}

\* the text of the 'no response' and of the connection error message
NoResponseText(c) ==
    "no response/" \o (IF client.call[c].detectedLanguage \in {"hindi", "english"}
                       THEN client.call[c].detectedLanguage ELSE "hinglish")

ConnectionErrorText(c) ==
    "connection failed/" \o (IF client.call[c].detectedLanguage \in {"hindi", "english"}
                             THEN client.call[c].detectedLanguage ELSE "hinglish")

\* the message of the JSON body, as the server wrote it
BodyMessage(c) ==
    CASE client.call[c].outcome = "message" -> ServerMessage(c)
      [] client.call[c].outcome = "empty_message" -> ""
      [] OTHER -> "<the response object>"

\* the bot message as the claim words it: the body's message when the body
\* has one
BotTextAsClaimed(c) ==
    CASE client.call[c].outcome \in {"message", "empty_message", "object_message"} ->
             BodyMessage(c)
      [] client.call[c].outcome = "no_message" -> NoResponseText(c)
      [] OTHER -> ConnectionErrorText(c)

\* the bot message by what data.message is: a non-empty text, absent or "",
\* or a value that cannot be formatted (as are a rejected fetch or json())
BotTextFor(c) ==
    CASE client.call[c].outcome = "message" -> ServerMessage(c)
      [] client.call[c].outcome \in {"no_message", "empty_message"} -> NoResponseText(c)
      [] OTHER -> ConnectionErrorText(c)

\* the messages call c has appended (loading indicators apart), in the
\* order they stand in the chat history
AppendedBy(c) == SelectSeq(client.chatHistory, LAMBDA e : e.call = c /\ e.id = "")

\* call c has appended one user message and, once it is done, one bot message
\* after it; before that it has appended no bot message
OneUserThenOneBot(c) ==
    LET mine == AppendedBy(c)
    IN  /\ client.call[c].pc = "idle" => mine = <<>>
        /\ client.call[c].pc # "idle" =>
              /\ Len(mine) = (IF client.call[c].pc = "done" THEN 2 ELSE 1)
              /\ mine[1].className = "user" /\ mine[1].text = QueryTyped(c)
        /\ client.call[c].pc = "done" => mine[2].className = "bot"

\* the bot message of a call that is done
BotText(c) == AppendedBy(c)[2].text

=============================================================================
